---------------------------- MODULE Spec2Model ----------------------------
(***************************************************************************)
(* A model of the symbol resolution and cross-file call-linking engine of  *)
(* code-index-mcp: the path normalizer, the module locator, the member     *)
(* introspector, the single-pass AST symbol extractor and the cross-file   *)
(* call linker of Neo4jIndexBuilder.build_index.                           *)
(*                                                                         *)
(* A Python string is a sequence of symbols.  A symbol is a piece of text  *)
(* that no operation of the program ever splits ("/", "::", ".", "w",      *)
(* "site-packages", "a.py"), so startswith, endswith, `in`, split and      *)
(* relpath are the prefix, suffix, sub-sequence and component operations   *)
(* on these sequences.  None and the empty string are both <<>> (the code  *)
(* only ever tests such values for truthiness).  A Python dict is a        *)
(* sequence of <<key, value>> pairs in insertion order.                    *)
(***************************************************************************)
EXTENDS Integers, Sequences, FiniteSets, TLC

VARIABLES
    normalizer,     \* the SymbolIDNormalizer under test (a record), <<>> before construction
    norm_in,        \* the last path handed to normalize_path
    norm_out,       \* what normalize_path returned for it
    normalizer2,    \* a second SymbolIDNormalizer of the same process, <<>> before construction
    norm_calls,     \* the last two calls made on the normalizers for norm_in, oldest first
    sys_path,       \* sys.path, the process-wide module search path
    loc_before,     \* sys.path as it was when the last get_import_spec call was entered
    loc_result,     \* what the last get_import_spec call returned: <<>> or <<ModuleSpec>>
    phase,          \* where parse_file / build_index stands
    visitor,        \* the SinglePassVisitor of the file being extracted
    source,         \* the nodes of that file traversed so far, in source order
    contents,       \* the project's files: contents[i] is the source of ProjectFiles[i]
    file_num,       \* build_index: the index of the next file of the per-file loop
    import_calls,   \* build_index: file path -> that file's pending import calls
    link_at,        \* build_index: the <<file, call>> the linker loop stands at
    parsed_modules, \* build_index: the origins whose members the linker asked for
    members,        \* build_index: the linker's shared tables m, c and f
    graph,          \* the Neo4j database: nodes, File paths and relationships
    materialized,   \* per origin, how often _getmembers parsed that module in this build
    totals,         \* build_index: total_files and total_symbols
    metadata,       \* the index metadata stored last, <<>> when there is none
    build_result,   \* what build_index did last: "none", "True", "False" or "raised"
    failed_writes,  \* the store requests that failed in this build, in order
    manager,        \* the Neo4jIndexManager (a record of its attributes)
    environ,        \* the value of NEO4J_IDX_CFG_PATH in os.environ, <<>> when unset
    config_file,    \* the configuration file: <<>> when absent, else <<"config", ...>>
    mgr_call,       \* the last call made on the manager, with what it did and returned
    descriptor,     \* a ModuleSpec whose members are looked up, <<>> when there is none
    extractions,    \* how often _getmembers read and parsed the module of descriptor
    lookups         \* the try_get_symbol_type calls made on descriptor, oldest first

normVars == <<normalizer, norm_in, norm_out, normalizer2, norm_calls>>
locVars == <<sys_path, loc_before, loc_result>>
parseVars == <<phase, visitor, source>>
buildVars == <<contents, file_num, import_calls, link_at, parsed_modules, members,
               graph, materialized, totals, metadata, build_result, failed_writes>>

mgrVars == <<manager, environ, config_file, mgr_call>>

descVars == <<descriptor, extractions, lookups>>

vars == <<normalizer, norm_in, norm_out, normalizer2, norm_calls, sys_path, loc_before, loc_result,
          phase, visitor, source, contents, file_num, import_calls, link_at,
          parsed_modules, members, graph, materialized, totals, metadata,
          build_result, failed_writes, manager, environ, config_file, mgr_call,
          descriptor, extractions, lookups>>

None == <<>>

-----------------------------------------------------------------------------
(* Strings *)

StartsWith(s, p) == Len(p) =< Len(s) /\ SubSeq(s, 1, Len(p)) = p

EndsWith(s, x) == Len(x) =< Len(s) /\ SubSeq(s, Len(s) - Len(x) + 1, Len(s)) = x

\* The positions at which sub occurs in s.
Occurrences(s, sub) ==
    {i \in 1..(Len(s) - Len(sub) + 1) : SubSeq(s, i, i + Len(sub) - 1) = sub}

\* Python's `sub in s`.
Contains(s, sub) == Occurrences(s, sub) # {}

Min(S) == CHOOSE x \in S : \A y \in S : x =< y

\* s.split(sub, 1): <<s>> when sub does not occur, else <<before, after>>.
SplitOnce(s, sub) ==
    IF ~Contains(s, sub) THEN <<s>>
    ELSE LET i == Min(Occurrences(s, sub))
         IN  <<SubSeq(s, 1, i - 1), SubSeq(s, i + Len(sub), Len(s))>>

\* s.split(sub)[-1].
RECURSIVE LastPart(_, _)
LastPart(s, sub) ==
    IF ~Contains(s, sub) THEN s ELSE LastPart(SplitOnce(s, sub)[2], sub)

Sep == "/"

\* The components of a path: path.split("/") without the empty pieces.
RECURSIVE Components(_)
Components(p) ==
    IF p = <<>> THEN <<>>
    ELSE IF Head(p) = Sep THEN Components(Tail(p))
    ELSE LET rest == Components(Tail(p))
         IN  IF Len(p) > 1 /\ p[2] # Sep
             THEN <<<<Head(p)>> \o Head(rest)>> \o Tail(rest)
             ELSE <<<<Head(p)>>>> \o rest

\* "/".join(parts)
RECURSIVE JoinParts(_)
JoinParts(parts) ==
    IF parts = <<>> THEN <<>>
    ELSE IF Len(parts) = 1 THEN Head(parts)
    ELSE Head(parts) \o <<Sep>> \o JoinParts(Tail(parts))

IsAbs(p) == p # <<>> /\ Head(p) = Sep

\* The component list with "." dropped and "x/.." collapsed (os.path.normpath).
RECURSIVE Collapse(_, _)
Collapse(done, todo) ==
    IF todo = <<>> THEN done
    ELSE LET c == Head(todo)
         IN  IF c = <<".">> THEN Collapse(done, Tail(todo))
             ELSE IF c = <<"..">> /\ done # <<>> /\ done[Len(done)] # <<"..">>
                  THEN Collapse(SubSeq(done, 1, Len(done) - 1), Tail(todo))
             ELSE Collapse(Append(done, c), Tail(todo))

\* The working directory of the process; relative paths are resolved against it.
Cwd == <<Sep, "w">>

\* os.path.abspath
AbsPath(p) ==
    LET full == IF IsAbs(p) THEN p ELSE Cwd \o <<Sep>> \o p
        comps == Collapse(<<>>, Components(full))
        \* above the root, ".." stays at the root
        kept == SelectSeq(comps, LAMBDA c : c # <<"..">>)
    IN  <<Sep>> \o JoinParts(kept)

RECURSIVE CommonLen(_, _)
CommonLen(a, b) ==
    IF a = <<>> \/ b = <<>> \/ Head(a) # Head(b) THEN 0
    ELSE 1 + CommonLen(Tail(a), Tail(b))

\* The relative path from the components sl of start to the components pl of
\* path.
RelFrom(sl, pl) ==
    LET i  == CommonLen(sl, pl)
        rel == [k \in 1..(Len(sl) - i) |-> <<"..">>] \o SubSeq(pl, i + 1, Len(pl))
    IN  IF rel = <<>> THEN <<".">> ELSE JoinParts(rel)

\* os.path.relpath(path, start)
RelPath(path, start) == RelFrom(Components(AbsPath(start)), Components(AbsPath(path)))

\* os.path.join(a, b)
PathJoin(a, b) ==
    IF IsAbs(b) THEN b
    ELSE IF a = <<>> \/ a[Len(a)] = Sep THEN a \o b
    ELSE a \o <<Sep>> \o b

-----------------------------------------------------------------------------
(* SymbolIDNormalizer *)

SitePackages == "site-packages"

\* SymbolIDNormalizer.__init__; stdlib is the value of _get_stdlib_paths(), in
\* the order in which the set is iterated.
NewNormalizer(project_root, venv_root, stdlib) ==
    [project_root |-> AbsPath(project_root),
     venv_root    |-> IF venv_root # None THEN AbsPath(venv_root) ELSE None,
     stdlib_paths |-> stdlib]

_is_in_project(n, file_path) == StartsWith(AbsPath(file_path), n.project_root)

_is_in_venv(n, file_path) ==
    IF n.venv_root = None THEN FALSE
    ELSE StartsWith(AbsPath(file_path), n.venv_root)

_is_in_stdlib(n, file_path) ==
    LET abs_path == AbsPath(file_path)
    IN  \E i \in DOMAIN n.stdlib_paths :
            /\ StartsWith(abs_path, n.stdlib_paths[i])
            /\ ~Contains(abs_path, <<SitePackages>>)

IsPythonDir(part) == part # <<>> /\ Head(part) = "python"

\* parts[start_idx:] joined, start_idx being past the first pythonX.Y part.
SkipPythonDir(parts) ==
    LET hits  == {i \in DOMAIN parts : IsPythonDir(parts[i])}
        start_idx == IF hits = {} THEN 0 ELSE Min(hits)
    IN  JoinParts(SubSeq(parts, start_idx + 1, Len(parts)))

\* The stdlib branch of normalize_path for the first matching stdlib path.
StdlibClean(abs_path, stdlib_path) ==
    SkipPythonDir(Components(RelPath(abs_path, stdlib_path)))

\* normalize_path from `abs_path = os.path.abspath(file_path)` on.
NormalizeAbs(n, abs_path) ==
    IF _is_in_project(n, abs_path)
    THEN RelPath(abs_path, n.project_root)
    ELSE IF _is_in_venv(n, abs_path)
    THEN LET parts == SplitOnce(abs_path, <<SitePackages, Sep>>)
         IN  IF Contains(abs_path, <<SitePackages>>) /\ Len(parts) = 2
             THEN <<"venv://">> \o parts[2]
             ELSE <<"venv://">> \o RelPath(abs_path, n.venv_root)
    ELSE IF _is_in_stdlib(n, abs_path)
    THEN LET first == Min({i \in DOMAIN n.stdlib_paths :
                              StartsWith(abs_path, n.stdlib_paths[i])})
         IN  <<"stdlib://">> \o StdlibClean(abs_path, n.stdlib_paths[first])
    ELSE <<"external://">> \o abs_path

normalize_path(n, file_path) == NormalizeAbs(n, AbsPath(file_path))

\* A symbol identifier made from the path as given, without normalize_path.
RawSymbolId(n, file_path, symbol_name) == file_path \o <<"::">> \o symbol_name

create_symbol_id(n, file_path, symbol_name) ==
    normalize_path(n, file_path) \o <<"::">> \o symbol_name

-----------------------------------------------------------------------------
(* Directories of the modelled host *)

\* A path from its components.
Abs(parts) == <<Sep>> \o JoinParts(parts)

ProjectRoot == Abs(<< <<"w">>, <<"project">> >>)
VenvInProject == Abs(<< <<"w">>, <<"project">>, <<".venv">> >>)
VenvOutside == Abs(<< <<"w">>, <<"venv">> >>)
StdlibRoot == Abs(<< <<"usr">>, <<"lib">>, <<"python", "3.11">> >>)
StdlibBase == Abs(<< <<"usr">>, <<"lib">> >>)

-----------------------------------------------------------------------------
(* Module Locator: ImportCallInfo.get_import_spec *)

\* The interpreter version named by .python-version or sys.version.
PythonVersion == <<"python", "3.11">>

get_venv_site_packages(project_root, venv_root) ==
    LET venv_dir == IF venv_root # None THEN venv_root
                    ELSE PathJoin(project_root, <<".venv">>)
    IN  PathJoin(PathJoin(PathJoin(venv_dir, <<"lib">>), PythonVersion), <<SitePackages>>)

\* ModuleSpec.__init__
NewModuleSpec(origin, venv_pkgs, project_root) ==
    [origin       |-> origin,
     initialised  |-> FALSE,
     classes      |-> <<>>,
     functions    |-> <<>>,
     methods      |-> <<>>,
     venv_pkgs    |-> venv_pkgs,
     project_root |-> project_root,
     try_inspect  |-> FALSE]

\* list.remove(x): the first occurrence goes.
RemoveFirst(seq, x) ==
    LET i == Min({k \in DOMAIN seq : seq[k] = x})
    IN  SubSeq(seq, 1, i - 1) \o SubSeq(seq, i + 1, Len(seq))

\* ImportCallInfo._setup_paths: the search path after it.
_setup_paths(sp, project_root, venv_root) ==
    Append(Append(sp, project_root), get_venv_site_packages(project_root, venv_root))

\* ImportCallInfo._cleanup_paths(*args)
RECURSIVE _cleanup_paths(_, _)
_cleanup_paths(sp, args) ==
    IF args = <<>> THEN sp
    ELSE LET arg == Head(args)
             sp1 == IF \E k \in DOMAIN sp : sp[k] = arg THEN RemoveFirst(sp, arg) ELSE sp
         IN  _cleanup_paths(sp1, Tail(args))

\* What one call of a finder (PathFinder.find_spec, importlib.util.find_spec) does:
\* it returns a spec with an origin, returns None, or raises.
Found(origin) == [kind |-> "found", origin |-> origin]
NotFound == [kind |-> "none", origin |-> None]
Raised == [kind |-> "raised", origin |-> None]

\* _get_spec from the call of the finder on: sp1 is the search path and
\* venv_pkgs the value _setup_paths left.
AfterFinder(sp1, project_root, venv_pkgs, o) ==
    IF o.kind = "raised"
    THEN [path |-> _cleanup_paths(sp1, <<project_root, venv_pkgs>>), spec |-> None]
    ELSE IF o.kind = "none"
    THEN [path |-> sp1, spec |-> None]
    ELSE [path |-> _cleanup_paths(sp1, <<project_root, venv_pkgs>>),
          spec |-> <<NewModuleSpec(o.origin, venv_pkgs, project_root)>>]

\* ImportCallInfo._get_spec with the finder's outcome o: the search path after
\* the call and the ModuleSpec returned (<<>> for None).
_get_spec(sp, project_root, venv_root, o) ==
    AfterFinder(_setup_paths(sp, project_root, venv_root), project_root,
                get_venv_site_packages(project_root, venv_root), o)

\* The three strategies of one _get_import_spec, first success wins; os is the
\* sequence of the finders' outcomes, one per strategy.
RECURSIVE Strategies(_, _, _, _)

\* `if spec: return spec`, else the strategies that are left.
SpecOrNext(r, project_root, venv_root, os) ==
    IF r.spec # None THEN r
    ELSE Strategies(r.path, project_root, venv_root, os)

Strategies(sp, project_root, venv_root, os) ==
    IF os = <<>> THEN [path |-> sp, spec |-> None]
    ELSE SpecOrNext(_get_spec(sp, project_root, venv_root, Head(os)),
                    project_root, venv_root, Tail(os))

\* `if (not spec) and import_module`: the same three strategies for
\* import_module; r is what the strategies for import_fullname gave.
OrImportModule(r, project_root, import_module, venv_root, os) ==
    IF r.spec # None THEN r
    ELSE IF import_module # None
    THEN Strategies(r.path, project_root, venv_root, os)
    ELSE r

\* ImportCallInfo.get_import_spec.  outcomes[1] are the finders' outcomes for
\* import_fullname, outcomes[2] those for import_module (used on recursion).
get_import_spec(sp, project_root, import_module, venv_root, outcomes) ==
    OrImportModule(Strategies(sp, project_root, venv_root, outcomes[1]),
                   project_root, import_module, venv_root, outcomes[2])

-----------------------------------------------------------------------------
(* Python containers *)

\* x in seq
InSeq(x, seq) == \E i \in DOMAIN seq : seq[i] = x

Last(seq) == seq[Len(seq)]

\* key in d
DictHas(d, k) == \E i \in DOMAIN d : d[i][1] = k

\* d[key]
DictGet(d, k) == d[CHOOSE i \in DOMAIN d : d[i][1] = k][2]

\* d[key] = value: a new key goes last, an old key keeps its place.
DictPut(d, k, val) ==
    IF DictHas(d, k)
    THEN [i \in DOMAIN d |-> IF d[i][1] = k THEN <<k, val>> ELSE d[i]]
    ELSE Append(d, <<k, val>>)

DictKeys(d) == {d[i][1] : i \in DOMAIN d}

-----------------------------------------------------------------------------
(* The modules the interpreter can find on disk *)

SitePackagesOutside ==
    VenvOutside \o <<Sep, "lib", Sep, "python", "3.11", Sep, SitePackages>>

\* import name -> origin of the module's spec.  b is a module of the project,
\* req is installed in the venv, tm is compiled into the interpreter, and
\* pkg.foobar is the module foobar ("foo" "bar") of the project's package pkg.
WorldModules ==
    << <<<<"b">>, ProjectRoot \o <<Sep, "b.py">>>>,
       <<<<"req">>, SitePackagesOutside \o <<Sep, "req.py">>>>,
       <<<<"tm">>, <<"built-in">>>>,
       <<<<"pkg", ".", "foo", "bar">>, ProjectRoot \o <<Sep, "pkg", Sep, "foobar.py">>>> >>

\* What the finders of the three strategies do for import_fullname: the two
\* PathFinder.find_spec calls are handed the stray positional argument "path"
\* (`*fn_kwargs` unpacks the keyword's name) and find nothing; find_spec finds
\* an installed module, and raises for a dotted name whose parent is a plain
\* module.
WorldFind(import_fullname) ==
    LET parent == SplitOnce(import_fullname, <<".">>)[1]
        third == IF DictHas(WorldModules, import_fullname)
                 THEN Found(DictGet(WorldModules, import_fullname))
                 ELSE IF Contains(import_fullname, <<".">>)
                 THEN Raised
                 ELSE NotFound
    IN  <<NotFound, NotFound, third>>

-----------------------------------------------------------------------------
(* AST Symbol Extractor: SinglePassVisitor *)

\* SymbolInfo(type=..., file=..., line=..., called_by=..., stack_levels=...)
SymbolInfo(type, file, line, called_by, stack_levels) ==
    [type |-> type, file |-> file, line |-> line, called_by |-> called_by,
     stack_levels |-> stack_levels, decorator_list |-> <<>>]

\* SinglePassVisitor.__init__.  heap holds the SymbolInfo objects the visitor
\* allocated; symbols and import_symbols map an identifier to the address of
\* its object, an ImportCallInfo holds the address of its called_symbol_info,
\* and import_call_info_lookup maps a name to the key of its ImportCallInfo in
\* import_calls.  frames is the chain of visit_* calls in progress; located
\* tells that the visitor has called ImportCallInfo.get_import_spec.
NewVisitor(file_path, project_dir, venv_root, explore_imports, norm) ==
    [file_path |-> file_path, project_dir |-> project_dir, venv_root |-> venv_root,
     explore_imports |-> explore_imports, normalizer |-> norm,
     heap |-> <<>>, symbols |-> <<>>, symbol_lookup |-> <<>>,
     functions |-> <<>>, classes |-> <<>>, imports |-> <<>>, from_imports |-> <<>>,
     import_symbols |-> <<>>, import_calls |-> <<>>, import_call_info_lookup |-> <<>>,
     current_function_stack |-> <<>>, current_class |-> None,
     processed_nodes |-> {}, frames |-> <<>>, nodes |-> 0, raised |-> FALSE,
     located |-> FALSE]

_create_symbol_id(v, file_path, symbol_name) ==
    IF v.normalizer # None
    THEN create_symbol_id(v.normalizer[1], file_path, symbol_name)
    ELSE file_path \o <<"::">> \o symbol_name

get_matching_imports(v, called_function) ==
    LET terms == IF Contains(called_function, <<".">>)
                 THEN {called_function, <<".">> \o LastPart(called_function, <<".">>)}
                 ELSE {called_function}
    IN  SelectSeq(v.imports, LAMBDA i : \E t \in terms : EndsWith(i, t))

\* try_get_import_spec: the located imports among matching_imports, each with
\* a ModuleSpec of its own.
\* The get_import_spec call of try_get_import_spec for one import.
LocateImport(v, called_import) ==
    LET import_module == IF DictHas(v.from_imports, called_import)
                         THEN DictGet(v.from_imports, called_import)
                         ELSE None
    IN  get_import_spec(<<>>, v.project_dir, import_module, v.venv_root,
                        <<WorldFind(called_import), WorldFind(import_module)>>).spec

\* One entry of the dict comprehension, ahead of the entries rest of the
\* imports after it.
PutLocated(called_import, spec, rest) ==
    IF spec # None /\ ~DictHas(rest, called_import)
    THEN <<<<called_import, spec[1]>>>> \o rest
    ELSE rest

RECURSIVE try_get_import_spec(_, _)
try_get_import_spec(v, matching_imports) ==
    IF matching_imports = <<>> THEN <<>>
    ELSE PutLocated(Head(matching_imports),
                    LocateImport(v, Head(matching_imports)),
                    try_get_import_spec(v, Tail(matching_imports)))

\* stack_levels.add(len(current_function_stack)) and called_by.append(caller)
\* unless the caller is there already.
RecordCaller(v, addr, caller) ==
    [v EXCEPT !.heap[addr].stack_levels = @ \cup {Len(v.current_function_stack)},
              !.heap[addr].called_by = IF InSeq(caller, @) THEN @ ELSE Append(@, caller)]

\* A placeholder is stored under import_symbol_id and no pending call with it.
PlaceholderOnly(v, called_function, caller_function, import_spec, relative_path, import_symbol_id) ==
    [v EXCEPT !.heap = Append(@, SymbolInfo("None", relative_path, -1, <<>>, {})),
              !.import_symbols = DictPut(@, import_symbol_id, Len(v.heap) + 1)]

call_info_from_import(v, called_function, caller_function, import_spec, relative_path, import_symbol_id) ==
    LET known == DictHas(v.import_symbols, import_symbol_id)
        addr == IF known THEN DictGet(v.import_symbols, import_symbol_id)
                ELSE Len(v.heap) + 1
        fresh == SymbolInfo("None", relative_path, -1,
                            IF caller_function # None THEN <<caller_function>> ELSE <<>>,
                            IF caller_function # None
                            THEN {Len(v.current_function_stack)} ELSE {})
        v1 == IF known
              THEN IF caller_function # None
                   THEN RecordCaller(v, addr, caller_function) ELSE v
              ELSE [v EXCEPT !.heap = Append(@, fresh),
                             !.import_symbols = DictPut(@, import_symbol_id, addr)]
    IN  IF DictHas(v1.import_calls, import_symbol_id) THEN v1
        ELSE [v1 EXCEPT
                 !.import_calls = DictPut(@, import_symbol_id,
                     [import_spec |-> import_spec,
                      import_relative_path |-> relative_path,
                      called_symbol_id |-> import_symbol_id,
                      called_symbol_info |-> addr]),
                 !.import_call_info_lookup = DictPut(@, called_function, import_symbol_id)]

\* try_as_import_call from `import_spec = import_specs[matching_imports[0]]`
\* on.
PlaceholderFor(v, called_function, caller_function, import_spec, relative_path) ==
    call_info_from_import(v, called_function, caller_function, import_spec,
                          relative_path,
                          _create_symbol_id(v, relative_path, called_function))

\* try_as_import_call from `if not import_specs` on.
ImportCallWith(v, called_function, caller_function, first_import, import_specs) ==
    IF import_specs = <<>> THEN v
    ELSE IF ~DictHas(import_specs, first_import)
    THEN [v EXCEPT !.raised = TRUE]
    ELSE PlaceholderFor(v, called_function, caller_function,
                        DictGet(import_specs, first_import),
                        IF DictGet(import_specs, first_import).origin # None
                        THEN RelPath(DictGet(import_specs, first_import).origin,
                                     v.project_dir)
                        ELSE RelPath(v.file_path, v.project_dir))

\* try_as_import_call once matching_imports is known.
ImportCallOf(v, called_function, caller_function, matching_imports) ==
    IF caller_function # None /\ matching_imports = <<>> THEN v
    ELSE ImportCallWith([v EXCEPT !.located = @ \/ matching_imports # <<>>],
                        called_function, caller_function,
                        Head(matching_imports),
                        try_get_import_spec(v, matching_imports))

\* try_as_import_call after `if not self.explore_imports: return`; raised is
\* set when import_specs[matching_imports[0]] raises KeyError.
ExploreImport(v, called_function, caller_function) ==
    IF DictHas(v.import_call_info_lookup, called_function) /\ caller_function # None
    THEN LET key == DictGet(v.import_call_info_lookup, called_function)
         IN  RecordCaller(v, DictGet(v.import_calls, key).called_symbol_info,
                          caller_function)
    ELSE ImportCallOf(v, called_function, caller_function,
                      get_matching_imports(v, called_function))

\* The import call is explored whatever explore_imports says.
ExploreRegardless(v, called_function, caller_function) ==
    ExploreImport(v, called_function, caller_function)

try_as_import_call(v, called_function, caller_function) ==
    IF ~v.explore_imports THEN v
    ELSE ExploreImport(v, called_function, caller_function)

\* The identifier extract_decorators records for a decorator name.
DecoratorSymbolId(v, decorator_func_name) ==
    IF DictHas(v.import_call_info_lookup, decorator_func_name)
    THEN DictGet(v.import_calls,
                 DictGet(v.import_call_info_lookup, decorator_func_name)).called_symbol_id
    ELSE IF DictHas(v.symbol_lookup, decorator_func_name)
    THEN DictGet(v.symbol_lookup, decorator_func_name)
    ELSE decorator_func_name

\* One turn of the loop of extract_decorators, on the SymbolInfo at addr.
AppendDecorator(v, addr, decorator_symbol_id) ==
    [v EXCEPT !.heap[addr].decorator_list = Append(@, decorator_symbol_id),
              !.heap[addr].called_by = Append(@, decorator_symbol_id)]

\* The loop body of extract_decorators after try_as_import_call left v1.
RecordDecorator(v1, decorator_func_name, addr) ==
    IF v1.raised THEN v1
    ELSE AppendDecorator(v1, addr, DecoratorSymbolId(v1, decorator_func_name))

\* The loop body of extract_decorators for one decorator.
ExtractDecorator(v, decorator_func_name, addr) ==
    RecordDecorator(IF get_matching_imports(v, decorator_func_name) # <<>>
                    THEN try_as_import_call(v, decorator_func_name, None)
                    ELSE v,
                    decorator_func_name, addr)

\* extract_decorators; an exception of try_as_import_call is not caught here.
RECURSIVE extract_decorators(_, _, _)
extract_decorators(v, decorator_list, addr) ==
    IF decorator_list = <<>> \/ v.raised THEN v
    ELSE extract_decorators(ExtractDecorator(v, Head(decorator_list).name, addr),
                            Tail(decorator_list), addr)

IsCallable(info) == info.type \in {"function", "method"}

\* `except Exception` of _visit_call: the exception is logged and goes no
\* further.
Caught(w) == [w EXCEPT !.raised = FALSE]

\* The method name match and the import call of _visit_call; v1 is the visitor
\* the exact match left, which did not return.
SuffixOrImport(v1, called_function, caller_function) ==
    LET hits == {i \in DOMAIN v1.symbol_lookup :
                    /\ EndsWith(v1.symbol_lookup[i][1], <<".">> \o called_function)
                    /\ IsCallable(v1.heap[DictGet(v1.symbols, v1.symbol_lookup[i][2])])}
    IN  IF hits # {}
        THEN RecordCaller(v1, DictGet(v1.symbols, v1.symbol_lookup[Min(hits)][2]),
                          caller_function)
        ELSE Caught(try_as_import_call(v1, called_function, caller_function))

\* _visit_call for called_function under the caller on top of the function
\* stack.
CallFrom(v, called_function, caller_function) ==
    LET exact == /\ DictHas(v.symbol_lookup, called_function)
                 /\ IsCallable(v.heap[DictGet(v.symbols,
                                      DictGet(v.symbol_lookup, called_function))])
        exact_addr == DictGet(v.symbols, DictGet(v.symbol_lookup, called_function))
    IN  IF exact /\ ~InSeq(caller_function, v.heap[exact_addr].called_by)
        THEN RecordCaller(v, exact_addr, caller_function)
        ELSE SuffixOrImport(IF exact THEN RecordCaller(v, exact_addr, caller_function)
                            ELSE v,
                            called_function, caller_function)

\* visit_Call._visit_call for a call whose func is a Name or an Attribute
\* (func.kind) of name func.name; anything else has no called_function.  An
\* exception raised on the way is caught and logged.
visit_Call(v, func) ==
    LET called_function == IF func.kind \in {"Name", "Attribute"} THEN func.name ELSE None
    IN  IF called_function = None THEN v
        ELSE IF v.current_function_stack = <<>>
        THEN Caught(try_as_import_call(v, called_function, None))
        ELSE CallFrom(v, called_function, Last(v.current_function_stack))

\* visit_Import for one alias
visit_Import(v, name) ==
    [v EXCEPT !.imports = Append(@, name)]

\* visit_ImportFrom for `from module import name`
visit_ImportFrom(v, module, name) ==
    IF module = None THEN v
    ELSE [v EXCEPT !.imports = Append(@, module \o <<".">> \o name),
                   !.from_imports = DictPut(@, module \o <<".">> \o name, module)]

\* visit_ClassDef up to the loop over the class body.
visit_ClassDef(v, node) ==
    LET symbol_id == _create_symbol_id(v, v.file_path, node.name)
        addr == Len(v.heap) + 1
    IN  [v EXCEPT !.heap = Append(@, SymbolInfo("class", v.file_path, node.lineno, <<>>, {})),
                  !.symbols = DictPut(@, symbol_id, addr),
                  !.symbol_lookup = DictPut(@, node.name, symbol_id),
                  !.classes = Append(@, node.name),
                  !.current_class = node.name,
                  !.frames = Append(@, [kind |-> "ClassDef", node |-> node,
                                        old_class |-> v.current_class])]

\* symbol_lookup[name] = symbol_id for each of names.
RECURSIVE PutAll(_, _, _)
PutAll(d, names, symbol_id) ==
    IF names = <<>> THEN d
    ELSE PutAll(DictPut(d, Head(names), symbol_id), Tail(names), symbol_id)

\* The SymbolInfo of the definition stored under symbol_id.
StoreCallable(v, node, type, names, symbol_id) ==
    LET called_by == IF v.current_function_stack # <<>>
                     THEN <<Last(v.current_function_stack)>> ELSE <<>>
        info == SymbolInfo(type, v.file_path, node.lineno, called_by,
                           {Len(v.current_function_stack) + Len(node.decorator_list)})
    IN  [v EXCEPT !.heap = Append(@, info),
                  !.symbols = DictPut(@, symbol_id, Len(v.heap) + 1),
                  !.symbol_lookup = PutAll(@, names, symbol_id)]

\* The definition joins functions and the function stack and its body opens,
\* unless extract_decorators raised; v2 is the visitor extract_decorators left.
OpenCallable(v2, node, type, qualname) ==
    IF v2.raised THEN v2
    ELSE [v2 EXCEPT !.functions = Append(@, qualname),
                    !.current_function_stack =
                        Append(@, v2.file_path \o <<"::">> \o qualname),
                    !.frames = Append(@, [kind |-> type, node |-> node,
                                          old_class |-> v2.current_class])]

\* The part of visit_FunctionDef and _handle_method that defines the symbol
\* qualname of kind type and opens its body.
DefineCallable(v, node, type, qualname, names) ==
    OpenCallable(
        extract_decorators(
            StoreCallable(v, node, type, names,
                          _create_symbol_id(v, v.file_path, qualname)),
            node.decorator_list, Len(v.heap) + 1),
        node, type, qualname)

\* visit_FunctionDef up to generic_visit(node).  Under a class the visit
\* returns at once and nothing below the node is traversed.
visit_FunctionDef(v, node) ==
    IF v.current_class # None THEN v
    ELSE IF node.lineno \in v.processed_nodes THEN v
    ELSE DefineCallable([v EXCEPT !.processed_nodes = @ \cup {node.lineno}],
                        node, "function", node.name, <<node.name>>)

\* _handle_method up to the loop over the method body.
_handle_method(v, node, class_name) ==
    DefineCallable(v, node, "method", class_name \o <<".">> \o node.name,
                   <<class_name \o <<".">> \o node.name, node.name>>)

\* generic_visit of the decorator_list of a FunctionDef: each decorator that
\* is a call expression goes through visit_Call.
RECURSIVE VisitDecoratorCalls(_, _)
VisitDecoratorCalls(v, decorator_list) ==
    IF decorator_list = <<>> THEN v
    ELSE LET d == Head(decorator_list)
             v1 == IF d.call THEN visit_Call(v, [kind |-> "Name", name |-> d.name]) ELSE v
         IN  VisitDecoratorCalls(v1, Tail(decorator_list))

Pop(seq) == SubSeq(seq, 1, Len(seq) - 1)

\* The body of the innermost open node is through and nothing is restored.
LeaveWithoutRestoring(v) == [v EXCEPT !.frames = Pop(@)]

\* The rest of the visit_* call on top of frames, once the body is through.
LeaveNode(v) ==
    LET top == Last(v.frames)
    IN  IF top.kind = "ClassDef"
        THEN [v EXCEPT !.current_class = top.old_class, !.frames = Pop(@)]
        ELSE IF top.kind = "function"
        THEN LET v1 == VisitDecoratorCalls(v, top.node.decorator_list)
             IN  [v1 EXCEPT !.current_function_stack = Pop(@), !.frames = Pop(@)]
        ELSE IF top.kind = "method"
        THEN [v EXCEPT !.current_function_stack = Pop(@), !.frames = Pop(@)]
        ELSE [v EXCEPT !.frames = Pop(@)]

\* NodeVisitor.visit(node) for the next node of the source, in the order of
\* the traversal.  A compound statement (if, for, with, try) is a "Block".
Visit(v, node) ==
    LET w == [v EXCEPT !.nodes = @ + 1]
    IN  IF node.kind = "End" THEN LeaveNode(v)
        ELSE IF node.kind = "Import" THEN visit_Import(w, node.name)
        ELSE IF node.kind = "ImportFrom" THEN visit_ImportFrom(w, node.module, node.name)
        ELSE IF node.kind = "Call" THEN visit_Call(w, node.func)
        ELSE IF node.kind = "ClassDef" THEN visit_ClassDef(w, node)
        ELSE IF node.kind = "FunctionDef"
        THEN IF w.frames # <<>> /\ Last(w.frames).kind = "ClassDef"
             THEN _handle_method(w, node, Last(w.frames).node.name)
             ELSE visit_FunctionDef(w, node)
        ELSE [w EXCEPT !.frames = Append(@, [kind |-> "Block", node |-> node,
                                             old_class |-> w.current_class])]

\* visitor.visit over the nodes of a source, in the order of the traversal; an
\* exception that is not caught ends it.
RECURSIVE RunVisitor(_, _)
RunVisitor(v, nodes) ==
    IF nodes = <<>> \/ v.raised THEN v
    ELSE RunVisitor(Visit(v, Head(nodes)), Tail(nodes))

\* ast.parse(content) raises SyntaxError: the text has a place that does not
\* parse.
Unparseable(content) == \E i \in DOMAIN content : content[i].kind = "SyntaxError"

\* The nodes that stand before the first place that does not parse are visited.
VisitUpToError(v, content) ==
    RunVisitor(v, SubSeq(content, 1,
                         Min({i \in DOMAIN content : content[i].kind = "SyntaxError"}
                                 \cup {Len(content) + 1}) - 1))

\* The try block of parse_file on the visitor it made: ast.parse, then
\* visitor.visit(tree); SyntaxError and every other exception are logged.
parse_file(v, content) ==
    IF Unparseable(content) THEN v ELSE Caught(RunVisitor(v, content))

-----------------------------------------------------------------------------
(* Sources: the nodes of a module in the order of the traversal *)

Import(name) == [kind |-> "Import", name |-> name]
ImportFrom(module, name) == [kind |-> "ImportFrom", module |-> module, name |-> name]
ClassDef(name, lineno) == [kind |-> "ClassDef", name |-> name, lineno |-> lineno]
FunctionDef(name, decorator_list, lineno) ==
    [kind |-> "FunctionDef", name |-> name, decorator_list |-> decorator_list,
     lineno |-> lineno]
CallName(id) == [kind |-> "Call", func |-> [kind |-> "Name", name |-> id]]
CallAttribute(attr) == [kind |-> "Call", func |-> [kind |-> "Attribute", name |-> attr]]
End == [kind |-> "End"]

\* The files of the project, in the order _get_supported_files lists them.
ProjectFiles == << <<"a.py">>, <<"b.py">>, <<"c.py">> >>

ProjectFile(i) == ProjectRoot \o <<Sep>> \o ProjectFiles[i]

\* req.py in the venv: def get(): pass; def post(): pass; class Session: pass
ReqSource ==
    <<FunctionDef(<<"get">>, <<>>, 1), End, FunctionDef(<<"post">>, <<>>, 2), End,
      ClassDef(<<"Session">>, 3), End>>

\* open(origin).read() for the module at origin: <<its source>>, or <<>> when
\* there is no such file to read.  files are the sources of the project files.
ModuleContent(files, origin) ==
    IF \E i \in DOMAIN files : ProjectFile(i) = origin
    THEN <<files[CHOOSE i \in DOMAIN files : ProjectFile(i) = origin]>>
    ELSE IF origin = SitePackagesOutside \o <<Sep, "req.py">>
    THEN <<ReqSource>>
    ELSE <<>>

-----------------------------------------------------------------------------
(* Member Introspector: ModuleSpec._getmembers and try_get_symbol_type *)

\* {name: info for name, info in module_symbols.items() if info.type == type}
OfType(mv, type) ==
    SelectSeq([i \in DOMAIN mv.symbols |-> <<mv.symbols[i][1], mv.heap[mv.symbols[i][2]]>>],
              LAMBDA e : e[2].type = type)

\* The three tables of _getmembers from the symbols parse_file returned.
Tabulate(spec, mv) ==
    [spec EXCEPT !.classes = OfType(mv, "class"),
                 !.functions = OfType(mv, "function"),
                 !.methods = OfType(mv, "method"),
                 !.initialised = TRUE]

\* The parse_file call of _getmembers on the text of the module.
Reparse(spec, file_content) ==
    parse_file(NewVisitor(spec.origin, spec.origin, spec.venv_pkgs, FALSE, None),
               file_content)

\* The try block of _getmembers: the module is read and parsed without import
\* exploration, with its origin as file path and as project directory.
Materialize(spec, content) ==
    IF content = <<>> THEN [spec EXCEPT !.initialised = FALSE]
    ELSE Tabulate(spec, Reparse(spec, content[1]))

\* _getmembers returns before it reads anything: no origin, or a built-in or
\* frozen module.
ReturnsEarly(spec) ==
    \/ spec.origin = None
    \/ Contains(spec.origin, <<"built-in">>)
    \/ Contains(spec.origin, <<"frozen">>)

\* ModuleSpec._getmembers (try_inspect is never set)
_getmembers(files, spec) ==
    IF ReturnsEarly(spec) THEN spec
    ELSE Materialize(spec, ModuleContent(files, spec.origin))

\* symbol_part, symbol_id and abs_id of try_get_symbol_type
SymbolKeys(spec, symbol_id) ==
    IF Contains(symbol_id, <<"::">>)
    THEN {SplitOnce(symbol_id, <<"::">>)[2], symbol_id,
          AbsPath(PathJoin(spec.project_root, SplitOnce(symbol_id, <<"::">>)[1]))
              \o <<"::">> \o SplitOnce(symbol_id, <<"::">>)[2]}
    ELSE {symbol_id}

\* The table in which one of keys is found, "None" when in none.
KindIn(spec, keys) ==
    IF keys \cap DictKeys(spec.classes) # {} THEN "class"
    ELSE IF keys \cap DictKeys(spec.functions) # {} THEN "function"
    ELSE IF keys \cap DictKeys(spec.methods) # {} THEN "method"
    ELSE "None"

\* try_get_symbol_type from the second `if not self.initialised` on; ran tells
\* that _getmembers was called.
TypeFound(spec1, symbol_id, ran) ==
    [spec |-> spec1, ran |-> ran,
     type |-> IF ~spec1.initialised THEN "None"
              ELSE KindIn(spec1, SymbolKeys(spec1, symbol_id))]

\* ModuleSpec.try_get_symbol_type: the type, "None" for None, and the ModuleSpec
\* as the call leaves it.
try_get_symbol_type(files, spec, symbol_id) ==
    TypeFound(IF spec.initialised THEN spec ELSE _getmembers(files, spec),
              symbol_id, ~spec.initialised)

-----------------------------------------------------------------------------
(* The graph store: the Cypher statements of the builder *)

EmptyGraph == [nodes |-> <<>>, files |-> {}, contains |-> {}, rels |-> {}]

\* A node as MERGE creates it: one label, the property it was matched on.
NewNode(label, qualified_name) ==
    [labels |-> {label}, qualified_name |-> qualified_name, type |-> "unset"]

\* MATCH (n:label {qualified_name: ...})
Match(g, label, qualified_name) ==
    {i \in DOMAIN g.nodes : /\ label \in g.nodes[i].labels
                            /\ g.nodes[i].qualified_name = qualified_name}

\* MERGE (n:label {qualified_name: ...})
MergeNode(g, label, qualified_name) ==
    IF Match(g, label, qualified_name) # {} THEN g
    ELSE [g EXCEPT !.nodes = Append(@, NewNode(label, qualified_name))]

\* MERGE (f:File {path: ...})
MergeFile(g, path) == [g EXCEPT !.files = @ \cup {path}]

\* MATCH (s:Symbol {qualified_name: ...}) SET s.type = type; a null removes the
\* property.
SetType(g, qualified_name, type) ==
    [g EXCEPT !.nodes = [i \in DOMAIN @ |->
        IF i \in Match(g, "Symbol", qualified_name)
        THEN [@[i] EXCEPT !.type = IF type = "None" THEN "unset" ELSE type]
        ELSE @[i]]]

\* MATCH (s:Symbol {qualified_name: ...}) SET s:label
SetLabel(g, qualified_name, label) ==
    [g EXCEPT !.nodes = [i \in DOMAIN @ |->
        IF i \in Match(g, "Symbol", qualified_name)
        THEN [@[i] EXCEPT !.labels = @ \cup {label}]
        ELSE @[i]]]

\* MATCH (f:File {path: ...}) ... MERGE (f)-[:CONTAINS]->(n)
Contain(g, path, label, qualified_name) ==
    IF path \notin g.files THEN g
    ELSE [g EXCEPT !.contains = @ \cup {<<path, i>> : i \in Match(g, label, qualified_name)}]

\* MERGE (a)-[:kind]->(b) between the matched nodes
Relate(g, kind, from_label, from_name, to_label, to_name) ==
    [g EXCEPT !.rels = @ \cup {<<kind, i, j>> : i \in Match(g, from_label, from_name),
                                               j \in Match(g, to_label, to_name)}]

\* class_id of a method identifier path::Class.method
ClassIdOf(symbol_id) ==
    SplitOnce(symbol_id, <<"::">>)[1] \o <<"::">>
        \o SplitOnce(SplitOnce(symbol_id, <<"::">>)[2], <<".">>)[1]

\* The statements of the branch `type == "method"`.
LabelMethod(g, symbol_id, class_id, path) ==
    Contain(
        Relate(
            Relate(MergeNode(SetLabel(g, symbol_id, "Function"), "Class", class_id),
                   "HAS_METHOD", "Class", class_id, "Symbol", symbol_id),
            "CLASS_TYPE", "Symbol", symbol_id, "Class", class_id),
        path, "Class", class_id)

\* The label statements that follow the MERGE of a symbol, by its type.
LabelByType(g, symbol_id, type, path) ==
    IF type = "class" THEN SetLabel(g, symbol_id, "Class")
    ELSE IF type = "function" THEN SetLabel(g, symbol_id, "Function")
    ELSE IF type = "method" THEN LabelMethod(g, symbol_id, ClassIdOf(symbol_id), path)
    ELSE g

\* for caller_id in called_by: MERGE (caller) MERGE (caller)-[:CALLS]->(called)
RECURSIVE AddCallers(_, _, _)
AddCallers(g, called_id, called_by) ==
    IF called_by = <<>> THEN g
    ELSE AddCallers(
             Relate(MergeNode(g, "Symbol", Head(called_by)),
                    "CALLS", "Symbol", Head(called_by), "Symbol", called_id),
             called_id, Tail(called_by))

\* caller_path of a decorator identifier
CallerPath(caller_id) ==
    IF Contains(caller_id, <<"::">>) THEN SplitOnce(caller_id, <<"::">>)[1]
    ELSE <<"venv">>

\* The statements for one identifier of decorator_list.
AddDecorator(g, called_id, caller_id, caller_path) ==
    Contain(
        Relate(SetLabel(MergeFile(g, caller_path), caller_id, "Decorater"),
               "DECORATES", "Symbol", caller_id, "Symbol", called_id),
        caller_path, "Symbol", caller_id)

\* for caller_id in decorator_list of _add_symbol_to_neo4j
RECURSIVE AddDecorators(_, _, _)
AddDecorators(g, called_id, decorator_list) ==
    IF decorator_list = <<>> THEN g
    ELSE AddDecorators(
             AddDecorator(g, called_id, Head(decorator_list),
                          CallerPath(Head(decorator_list))),
             called_id, Tail(decorator_list))

\* Neo4jIndexBuilder._add_symbol_to_neo4j
_add_symbol_to_neo4j(g, symbol_id, symbol_info) ==
    AddDecorators(
        AddCallers(
            LabelByType(
                Contain(
                    SetType(MergeNode(MergeFile(g, symbol_info.file), "Symbol", symbol_id),
                            symbol_id, symbol_info.type),
                    symbol_info.file, "Symbol", symbol_id),
                symbol_id, symbol_info.type, symbol_info.file),
            symbol_id, symbol_info.called_by),
        symbol_id, symbol_info.decorator_list)

\* for symbol_id, symbol_info in symbols.items(): _add_symbol_to_neo4j
RECURSIVE AddSymbols(_, _, _)
AddSymbols(g, v, i) ==
    IF i > Len(v.symbols) THEN g
    ELSE AddSymbols(_add_symbol_to_neo4j(g, v.symbols[i][1], v.heap[v.symbols[i][2]]),
                    v, i + 1)

\* CREATE (s:Symbol {qualified_name: ...}) SET s.type = type
CreateSymbol(g, qualified_name, type) ==
    SetType([g EXCEPT !.nodes = Append(@, NewNode("Symbol", qualified_name))],
            qualified_name, type)

\* MERGE (s:Symbol {qualified_name: ...}) ON CREATE SET s.type = type
MergeOnCreate(g, qualified_name, type) ==
    IF Match(g, "Symbol", qualified_name) # {} THEN g
    ELSE SetType(MergeNode(g, "Symbol", qualified_name), qualified_name, type)

\* Neo4jIndexBuilder._add_import_call_to_neo4j.  The decorator_list of a
\* placeholder is empty, so the loop over it has no turn.
_add_import_call_to_neo4j(g, file_path, import_call) ==
    AddCallers(
        LabelByType(
            Contain(
                MergeOnCreate(
                    MergeFile(MergeFile(MergeFile(g, import_call.import_relative_path),
                                        import_call.called_symbol_info.file),
                              file_path),
                    import_call.called_symbol_id, import_call.called_symbol_info.type),
                import_call.called_symbol_info.file, "Symbol", import_call.called_symbol_id),
            import_call.called_symbol_id, import_call.called_symbol_info.type,
            import_call.called_symbol_info.file),
        import_call.called_symbol_id, import_call.called_symbol_info.called_by)

-----------------------------------------------------------------------------
(* Cross-File Call Linker: the state of Neo4jIndexBuilder.build_index *)

\* m, c, f = {}, {}, {}
NewMembers == [m |-> <<>>, c |-> <<>>, f |-> <<>>]

\* total_files = 0, total_symbols = 0
NewTotals == [total_files |-> 0, total_symbols |-> 0]

\* d.update(e)
RECURSIVE Update(_, _)
Update(d, e) ==
    IF e = <<>> THEN d
    ELSE Update(DictPut(d, Head(e)[1], Head(e)[2]), Tail(e))

\* m.update(spec.methods); c.update(spec.classes); f.update(spec.functions)
UpdateMembers(tables, spec) ==
    [m |-> Update(tables.m, spec.methods),
     c |-> Update(tables.c, spec.classes),
     f |-> Update(tables.f, spec.functions)]

\* The else branch of the linker: the ModuleSpec is handed the shared tables.
\* It reads them in this turn of the loop only, so it is handed their value.
ShareMembers(spec, tables) ==
    [spec EXCEPT !.classes = tables.c, !.functions = tables.f, !.methods = tables.m]

\* file_info.import_calls as the builder keeps it: every ImportCallInfo with
\* the placeholder object it refers to.
FileImportCalls(v) ==
    [i \in DOMAIN v.import_calls |->
        <<v.import_calls[i][1],
          [v.import_calls[i][2] EXCEPT
              !.called_symbol_info = v.heap[v.import_calls[i][2].called_symbol_info]]>>]

\* The type as try_get_symbol_type returned it.
TypeAsFound(type) == type

\* try_get_symbol_type(...) or "function"
TypeOrFunction(type) == IF type = "None" THEN "function" ELSE type

\* A new record in the place of the placeholder.
Replaced(import_call, found) ==
    [import_call EXCEPT
        !.import_spec = found.spec,
        !.called_symbol_info = SymbolInfo(TypeOrFunction(found.type), @.file, @.line,
                                          <<>>, {})]

\* Line 263: the type of the placeholder is assigned; found is what
\* try_get_symbol_type returned and left of the ModuleSpec.
Linked(import_call, found) ==
    [import_call EXCEPT !.import_spec = found.spec,
                        !.called_symbol_info.type = TypeOrFunction(found.type)]

-----------------------------------------------------------------------------
(* Neo4jIndexManager *)

\* str.strip() on a sequence of characters; " " stands for any whitespace.
RECURSIVE LStrip(_)
LStrip(s) == IF s # <<>> /\ Head(s) = " " THEN LStrip(Tail(s)) ELSE s

RECURSIVE RStrip(_)
RStrip(s) == IF s # <<>> /\ s[Len(s)] = " " THEN RStrip(SubSeq(s, 1, Len(s) - 1)) ELSE s

strip(s) == RStrip(LStrip(s))

\* An argument that is no str.
NotAString == <<"int">>

\* The directories of the machine the manager runs on.
ManagerDirs == {<<"/proj">>, <<"/other">>, <<"/venv">>}

\* A mocked os.path.isdir that holds of every path.
AnyPath(path) == TRUE

\* os.path.isdir(path)
isdir(path) == path \in ManagerDirs

\* Neo4jIndexManager(): the clustering attributes do not exist yet.
NewManager ==
    [project_path |-> None, venv_path |-> None, neo4j_uri |-> None, driver |-> None,
     index_builder |-> None, index_provider |-> None, config_path |-> None,
     clustering |-> None]

DefaultUri == <<"bolt://localhost:7687">>

\* The defaults of enabled, k and max_iterations.
DefaultClustering == <<TRUE, 5, 50>>

\* A manager whose clustering attributes are never looked at.
DefaultsOnly(m) == DefaultClustering

\* getattr(self, 'clustering_enabled', True), getattr(self, 'clustering_k', 5)
\* and getattr(self, 'clustering_max_iterations', 50)
Clustering(m) == IF m.clustering = None THEN DefaultClustering ELSE m.clustering

\* _load_neo4j_config: the connection settings and the clustering attributes
\* are reset to their defaults, then read from the configuration file when
\* there is one at config_path.
_load_neo4j_config(m, env, file) ==
    LET config_path == IF env # None THEN env ELSE m.config_path
    IN  [m EXCEPT !.neo4j_uri = DefaultUri,
                  !.config_path = config_path,
                  !.clustering = IF config_path # None /\ file # None /\ Len(file) = 2
                                 THEN file[2]
                                 ELSE DefaultClustering]

\* _save_neo4j_config: nothing is written without a config_path.
_save_neo4j_config(m, file) ==
    IF m.config_path = None THEN file ELSE <<"config", Clustering(m)>>

\* Lines 593-622 of initialize: the settings are loaded and the explicitly set
\* ones restored.
Configured(m, env, file) ==
    LET loaded == _load_neo4j_config(m, env, file)
    IN  IF m.neo4j_uri # None THEN [loaded EXCEPT !.neo4j_uri = m.neo4j_uri] ELSE loaded

\* Lines 625-645 of initialize: the driver, the builder and the provider.
Connected(m) ==
    [m EXCEPT !.driver = <<"driver">>,
              !.index_builder = <<[project_path |-> m.project_path,
                                   venv_path |-> m.venv_path]>>,
              !.index_provider = <<m.project_path>>]

\* What the database does to initialize(): GraphDatabase.driver raises, the
\* test query raises, or both succeed.
InitOutcomes == {"driver_error", "session_error", "ok"}

\* initialize(): the manager and the configuration file it leaves, and what it
\* returns.
initialize(m, env, file, outcome) ==
    IF m.project_path = None
    THEN [manager |-> m, config_file |-> file, result |-> FALSE]
    ELSE IF outcome = "driver_error"
    THEN [manager |-> Configured(m, env, file), config_file |-> file, result |-> FALSE]
    ELSE IF outcome = "session_error"
    THEN [manager |-> [Configured(m, env, file) EXCEPT !.driver = <<"driver">>],
          config_file |-> file, result |-> FALSE]
    ELSE [manager |-> Connected(Configured(m, env, file)),
          config_file |-> _save_neo4j_config(Connected(Configured(m, env, file)), file),
          result |-> TRUE]

\* A setter that returned False at its validation.
Rejected(m, file) ==
    [manager |-> m, config_file |-> file, result |-> FALSE, initialized |-> 0]

\* The last line of both setters: return self.initialize() if init else True
InitializeIf(init, m, env, file, outcome) ==
    IF init
    THEN [manager |-> initialize(m, env, file, outcome).manager,
          config_file |-> initialize(m, env, file, outcome).config_file,
          result |-> initialize(m, env, file, outcome).result,
          initialized |-> 1]
    ELSE [manager |-> m, config_file |-> file, result |-> TRUE, initialized |-> 0]

\* set_project_path(project_path, init); raises says that os.path.isdir raised.
set_project_path(m, env, file, project_path, init, raises, outcome) ==
    IF project_path = None \/ project_path = NotAString THEN Rejected(m, file)
    ELSE IF strip(project_path) = <<>> THEN Rejected(m, file)
    ELSE IF raises THEN Rejected(m, file)
    ELSE IF ~isdir(strip(project_path)) THEN Rejected(m, file)
    ELSE InitializeIf(init, [m EXCEPT !.project_path = strip(project_path)],
                      env, file, outcome)

\* set_venv_path(venv_path, init)
set_venv_path(m, env, file, venv_path, init, raises, outcome) ==
    IF venv_path = None \/ venv_path = NotAString THEN Rejected(m, file)
    ELSE IF strip(venv_path) = <<>> THEN Rejected(m, file)
    ELSE IF raises THEN Rejected(m, file)
    ELSE IF ~isdir(strip(venv_path)) THEN Rejected(m, file)
    ELSE InitializeIf(init, [m EXCEPT !.venv_path = strip(venv_path)],
                      env, file, outcome)

\* set_clustering_config(enabled, k, max_iterations)
set_clustering_config(m, file, config) ==
    [manager |-> [m EXCEPT !.clustering = config],
     config_file |-> _save_neo4j_config([m EXCEPT !.clustering = config], file),
     result |-> TRUE]

\* What the builder's build_index does when the manager calls it.
BuilderOutcomes == {"True", "False", "raised"}

\* One call of the builder's build_index as refresh_index makes it.
BuildCall(config, outcome) ==
    [run_clustering |-> config[1], k |-> config[2], max_iterations |-> config[3],
     outcome |-> outcome]

\* refresh_index(): the calls of build_index it made, the configuration file
\* it leaves and what it returns.
refresh_index(m, file, outcome) ==
    IF m.index_builder = None
    THEN [built |-> <<>>, config_file |-> file, result |-> FALSE]
    ELSE [built |-> <<BuildCall(Clustering(m), outcome)>>,
          config_file |-> IF outcome = "True" THEN _save_neo4j_config(m, file) ELSE file,
          result |-> outcome = "True"]

-----------------------------------------------------------------------------
(* The normalizer driven on bounded inputs *)

NormProjectRoots == {ProjectRoot}
NormVenvRoots == {None, VenvInProject, VenvOutside}
NormStdlibOrders == {<<StdlibRoot, StdlibBase>>, <<StdlibBase, StdlibRoot>>}

\* Directories files are taken from, and the files taken from each.
NormDirs ==
    {ProjectRoot,
     ProjectRoot \o <<Sep, "src">>,
     ProjectRoot \o <<"-old">>,
     VenvInProject \o <<Sep, "lib", Sep, "python", "3.11", Sep, SitePackages>>,
     VenvInProject \o <<Sep, "bin">>,
     VenvOutside \o <<Sep, "lib", Sep, "python", "3.11", Sep, SitePackages>>,
     VenvOutside \o <<Sep, "bin">>,
     StdlibRoot,
     StdlibRoot \o <<Sep, SitePackages>>,
     Abs(<< <<"opt">> >>)}

NormTails == {<<"module.py">>, <<"requests", Sep, "api.py">>}

NormPaths == {d \o <<Sep>> \o t : d \in NormDirs, t \in NormTails}

\* Symbol names identifiers are made for.
NormNames == {<<"get">>}

NormIdle ==
    /\ normalizer = None
    /\ norm_in = None
    /\ norm_out = None
    /\ normalizer2 = None
    /\ norm_calls = <<>>

\* The search path of a process that never located a module.
LocIdle ==
    /\ sys_path = <<StdlibRoot>>
    /\ loc_before = <<StdlibRoot>>
    /\ loc_result = None

\* No file is being extracted.
ParseIdle ==
    /\ phase = "idle"
    /\ visitor = NewVisitor(None, None, None, FALSE, None)
    /\ source = <<>>

\* No build is under way and the database is empty.
BuildIdle ==
    /\ contents = <<>>
    /\ file_num = 0
    /\ import_calls = <<>>
    /\ link_at = <<0, 0>>
    /\ parsed_modules = {}
    /\ members = NewMembers
    /\ graph = EmptyGraph
    /\ materialized = <<>>
    /\ totals = NewTotals
    /\ metadata = None
    /\ build_result = "none"
    /\ failed_writes = <<>>

\* A manager nobody called.
ManagerIdle ==
    /\ manager = NewManager
    /\ environ = None
    /\ config_file = None
    /\ mgr_call = [op |-> "none"]

\* No ModuleSpec is looked into.
DescriptorIdle ==
    /\ descriptor = None
    /\ extractions = 0
    /\ lookups = <<>>

NormInit == NormIdle /\ LocIdle /\ ParseIdle /\ BuildIdle /\ ManagerIdle /\ DescriptorIdle

\* SymbolIDNormalizer(project_root, venv_root)
Construct ==
    /\ normalizer = None
    /\ \E root \in NormProjectRoots, venv \in NormVenvRoots, std \in NormStdlibOrders :
           normalizer' = <<NewNormalizer(root, venv, std)>>
    /\ UNCHANGED <<norm_in, norm_out, normalizer2, norm_calls>>
    /\ UNCHANGED <<mgrVars, descVars, locVars, parseVars, buildVars>>

\* A call of fn on the normalizer `by` and what it returned.
NormCall(fn, by, path, name, out) ==
    [fn |-> fn, by |-> by, path |-> path, name |-> name, out |-> out]

\* The last two calls once call is made.
Logged(call) ==
    IF norm_calls = <<>> THEN <<call>> ELSE <<Last(norm_calls), call>>

\* normalizer.normalize_path(p)
NormalizePath ==
    /\ normalizer # None
    /\ \E p \in NormPaths :
       \E out \in {normalize_path(normalizer[1], p)} :
           /\ norm_in' = p
           /\ norm_out' = out
           /\ norm_calls' = IF p = norm_in
                             THEN Logged(NormCall("normalize_path", normalizer[1], p, None, out))
                             ELSE <<NormCall("normalize_path", normalizer[1], p, None, out)>>
    /\ UNCHANGED <<normalizer, normalizer2>>
    /\ UNCHANGED <<mgrVars, descVars, locVars, parseVars, buildVars>>

\* A second SymbolIDNormalizer(project_root, venv_root) in the process of the
\* first: _get_stdlib_paths builds the same set from the same sys.path, and
\* the set is iterated in the same order.
ConstructSecond ==
    /\ normalizer # None
    /\ normalizer2 = None
    /\ \E root \in NormProjectRoots, venv \in NormVenvRoots :
           normalizer2' = <<NewNormalizer(root, venv, normalizer[1].stdlib_paths)>>
    /\ UNCHANGED <<normalizer, norm_in, norm_out, norm_calls>>
    /\ UNCHANGED <<mgrVars, descVars, locVars, parseVars, buildVars>>

\* normalizer2.normalize_path(norm_in): the file the first normalizer was
\* given last.
NormalizePathSecond ==
    /\ normalizer2 # None
    /\ norm_in # None
    /\ norm_calls' = Logged(NormCall("normalize_path", normalizer2[1], norm_in, None,
                                     normalize_path(normalizer2[1], norm_in)))
    /\ UNCHANGED <<normalizer, norm_in, norm_out, normalizer2>>
    /\ UNCHANGED <<mgrVars, descVars, locVars, parseVars, buildVars>>

\* create_symbol_id(norm_in, name) on one of the two normalizers.
CreateSymbolId ==
    /\ norm_in # None
    /\ \E n \in {normalizer[1]} \cup {normalizer2[i] : i \in DOMAIN normalizer2},
          name \in NormNames :
           norm_calls' = Logged(NormCall("create_symbol_id", n, norm_in, name,
                                         create_symbol_id(n, norm_in, name)))
    /\ UNCHANGED <<normalizer, norm_in, norm_out, normalizer2>>
    /\ UNCHANGED <<mgrVars, descVars, locVars, parseVars, buildVars>>

NextNorm ==
    \/ Construct
    \/ NormalizePath
    \/ ConstructSecond
    \/ NormalizePathSecond
    \/ CreateSymbolId

SpecNorm == NormInit /\ [][NextNorm]_vars

\* p is a file below the site-packages directory of the venv root of n.
UnderVenvSitePackages(n, p) ==
    /\ n.venv_root # None
    /\ StartsWith(p, n.venv_root \o <<Sep>>)
    /\ Contains(SubSeq(p, Len(n.venv_root) + 1, Len(p)), <<Sep, SitePackages, Sep>>)

\* C10: with a project root and a venv root (possibly inside the project root),
\* every file under the venv's site-packages is classified as venv and not as
\* project: _is_in_project is false and normalize_path is venv:// followed by
\* the path after site-packages/.
C10_VenvFileIsVenv ==
    (normalizer # None /\ norm_in # None /\ UnderVenvSitePackages(normalizer[1], norm_in))
        => /\ ~_is_in_project(normalizer[1], norm_in)
           /\ norm_out = <<"venv://">> \o SplitOnce(norm_in, <<SitePackages, Sep>>)[2]

\* Two normalizers were constructed with the same project root and venv root.
SameRoots(n1, n2) == n1.project_root = n2.project_root /\ n1.venv_root = n2.venv_root

InsideDirectory(root, path) ==
    LET r == Components(AbsPath(root))
        q == Components(AbsPath(path))
    IN  Len(r) <= Len(q) /\ SubSeq(q, 1, Len(r)) = r

\* The result of normalize_path carries one of the scheme prefixes.
HasScheme(out) ==
    \/ StartsWith(out, <<"venv://">>)
    \/ StartsWith(out, <<"stdlib://">>)
    \/ StartsWith(out, <<"external://">>)

\* C29: whenever normalize_path returns a project-relative path (no scheme
\* prefix), the input file lies inside the project root directory and the
\* result does not start with `..`; a file of a sibling directory whose name
\* begins with the project root's name gets no project-relative identifier.
C29_ProjectRelativeIsInsideRoot ==
    (normalizer # None /\ norm_in # None /\ ~HasScheme(norm_out))
        => /\ InsideDirectory(normalizer[1].project_root, norm_in)
           /\ ~StartsWith(norm_out, <<"..">>)

-----------------------------------------------------------------------------
(* The Module Locator driven on bounded inputs *)

\* How long sys.path may grow before the model stops calling the locator.
MaxSysPath == 5

FinderOutcomes == {Found(ProjectRoot \o <<Sep, "b.py">>), NotFound, Raised}
StrategyOutcomes == [1..3 -> FinderOutcomes]
LocVenvRoots == {None, VenvOutside}

LocInit ==
    /\ NormIdle
    /\ ManagerIdle
    /\ DescriptorIdle
    /\ ParseIdle
    /\ BuildIdle
    /\ sys_path \in {<<StdlibRoot>>, <<ProjectRoot, StdlibRoot>>}
    /\ loc_before = sys_path
    /\ loc_result = None

\* One call ImportCallInfo.get_import_spec(import_fullname, path, project_root,
\* import_module, venv_root), whatever the finders do.
GetImportSpec ==
    /\ Len(sys_path) < MaxSysPath
    /\ \E import_module \in {None, <<"b">>}, venv_root \in LocVenvRoots,
          o1 \in StrategyOutcomes :
        \E o2 \in IF import_module = None THEN {[i \in 1..3 |-> NotFound]}
                   ELSE StrategyOutcomes :
           LET r == get_import_spec(sys_path, ProjectRoot, import_module, venv_root, <<o1, o2>>)
           IN  /\ sys_path' = r.path
               /\ loc_before' = sys_path
               /\ loc_result' = r.spec
    /\ UNCHANGED <<mgrVars, descVars, normVars, parseVars, buildVars>>

NextLocator == GetImportSpec

SpecLocator == LocInit /\ [][NextLocator]_vars

\* C7: after every get_import_spec call, whatever each strategy did, sys.path is
\* equal, entry for entry and in order, to what it was before the call.
C7_SearchPathRestored == sys_path = loc_before

-----------------------------------------------------------------------------
(* The extractor driven over every source of bounded size *)

\* Nodes per source file and depth of nesting of definitions and blocks.
MaxNodes == 3
MaxHeader == 1
MaxWriteFailures == 1
MaxDepth == 2

Identifiers == {<<"foo">>, <<"bar">>}
ClassNames == {<<"K">>}
PlainImports == {<<"b">>, <<"pkg", ".", "foo", "bar">>}
FromImports == {<<<<"b">>, <<"bar">>>>, <<<<"ghost">>, <<"bar">>>>}

\* @name and @name(...)
Decorator(name, call) == [name |-> name, call |-> call]
DecoratorLists ==
    {<<>>,
     <<Decorator(<<"bar">>, FALSE)>>,
     <<Decorator(<<"bar">>, TRUE), Decorator(<<"bar">>, TRUE)>>}

CallFuncs ==
    {[kind |-> "Name", name |-> n] : n \in Identifiers}
        \cup {[kind |-> "Attribute", name |-> <<"bar">>], [kind |-> "Subscript", name |-> None]}

\* parse_file(file_path, ..., explore_imports, normalizer): a.py by its
\* project-relative path without a normalizer, and by its absolute path with
\* the normalizer of the project.
ParseCalls ==
    {<<<<"a.py">>, e, None>> : e \in BOOLEAN}
        \cup {<<ProjectRoot \o <<Sep, "a.py">>, FALSE,
                <<NewNormalizer(ProjectRoot, VenvOutside, <<StdlibRoot, StdlibBase>>)>>>>}

ParseInit ==
    /\ NormIdle
    /\ ManagerIdle
    /\ DescriptorIdle
    /\ LocIdle
    /\ BuildIdle
    /\ phase = "parse"
    /\ \E call \in ParseCalls :
           visitor = NewVisitor(call[1], ProjectRoot, VenvOutside, call[2], call[3])
    /\ source = <<>>

\* A source that opens with `from b import bar` has MaxHeader nodes more.
Headers == {[kind |-> "ImportFrom", module |-> <<"b">>, name |-> <<"bar">>]}

Header == IF source # <<>> /\ Head(source) \in Headers THEN MaxHeader ELSE 0

\* The traversal can take a further node of the source.
CanVisit ==
    /\ phase = "parse"
    /\ ~visitor.raised
    /\ visitor.nodes < MaxNodes + Header

\* A node that opens a body can be nested no deeper than MaxDepth.
CanOpen == CanVisit /\ Len(visitor.frames) < MaxDepth

\* visit(node) on the next node of the source.
Take(node) ==
    /\ visitor' = Visit(visitor, node)
    /\ source' = Append(source, node)
    /\ UNCHANGED phase
    /\ UNCHANGED <<mgrVars, descVars, normVars, locVars, buildVars>>

VisitImport ==
    /\ CanVisit
    /\ \E n \in PlainImports : Take([kind |-> "Import", name |-> n])

VisitImportFrom ==
    /\ CanVisit
    /\ \E mn \in FromImports :
           Take([kind |-> "ImportFrom", module |-> mn[1], name |-> mn[2]])

VisitClassDef ==
    /\ CanOpen
    /\ \E n \in ClassNames :
           Take([kind |-> "ClassDef", name |-> n, lineno |-> visitor.nodes + 1])

\* A FunctionDef: a method when it is a statement of a class body, a function
\* otherwise; below a class it is passed over with everything in it.
VisitFunctionDef ==
    /\ CanVisit
    /\ \/ Len(visitor.frames) < MaxDepth
       \/ visitor.current_class # None /\ Last(visitor.frames).kind # "ClassDef"
    /\ \E n \in Identifiers, ds \in DecoratorLists :
           Take([kind |-> "FunctionDef", name |-> n, decorator_list |-> ds,
                 lineno |-> visitor.nodes + 1])

VisitBlock ==
    /\ CanOpen
    /\ Take([kind |-> "Block"])

VisitCall ==
    /\ CanVisit
    /\ \E f \in CallFuncs : Take([kind |-> "Call", func |-> f])

\* The body of the innermost open node is through.
Leave ==
    /\ phase = "parse"
    /\ ~visitor.raised
    /\ visitor.frames # <<>>
    /\ Take([kind |-> "End"])

\* visitor.visit(tree) returned, or raised into parse_file's except clause.
ParseReturn ==
    /\ phase = "parse"
    /\ visitor.frames = <<>> \/ visitor.raised
    /\ phase' = "parsed"
    /\ UNCHANGED <<visitor, source>>
    /\ UNCHANGED <<mgrVars, descVars, normVars, locVars, buildVars>>

NextParse ==
    \/ VisitImport
    \/ VisitImportFrom
    \/ VisitClassDef
    \/ VisitFunctionDef
    \/ VisitBlock
    \/ VisitCall
    \/ Leave
    \/ ParseReturn

SpecParse == ParseInit /\ [][NextParse]_vars

\* The SymbolInfo objects parse_file hands back: symbols and placeholders.
Returned(v) ==
    {v.heap[v.symbols[i][2]] : i \in DOMAIN v.symbols}
        \cup {v.heap[v.import_symbols[i][2]] : i \in DOMAIN v.import_symbols}

NoDuplicates(seq) == \A i, j \in DOMAIN seq : seq[i] = seq[j] => i = j

\* C5: after parse_file, called_by of every symbol and every placeholder holds
\* no identifier more than once.
C5_CalledByHasNoDuplicates ==
    phase = "parsed" => \A info \in Returned(visitor) : NoDuplicates(info.called_by)

\* The definitions of the source that carry decorators.
DecoratedDefs ==
    {i \in DOMAIN source : source[i].kind = "FunctionDef" /\ source[i].decorator_list # <<>>}

\* The symbol records of v made for the definition on a line.
RecordsOf(v, lineno) ==
    {v.heap[v.symbols[i][2]] : i \in {j \in DOMAIN v.symbols :
                                         /\ IsCallable(v.heap[v.symbols[j][2]])
                                         /\ v.heap[v.symbols[j][2]].line = lineno}}

\* The visitor as it reaches node i of the source.
Reaching(i) ==
    RunVisitor(NewVisitor(visitor.file_path, visitor.project_dir, visitor.venv_root,
                          visitor.explore_imports, visitor.normalizer),
               SubSeq(source, 1, i - 1))

\* The identifiers a decorator name stands for where the definition starts: the
\* pending-import identifier under a located import that binds the name, else
\* the identifier of the same-file definition of that name, else the bare name.
DecoratorIds(before, name, specs) ==
    IF specs # <<>>
    THEN {_create_symbol_id(before, RelPath(specs[i][2].origin, before.project_dir), name) :
             i \in DOMAIN specs}
    ELSE IF DictHas(before.symbol_lookup, name)
    THEN {DictGet(before.symbol_lookup, name)}
    ELSE {name}

\* The record info of a definition with decorators ds, reached in state before,
\* lists one identifier per decorator, in order, each of them a caller too.
DecoratorsListed(info, ds, before) ==
    /\ Len(info.decorator_list) = Len(ds)
    /\ \A k \in DOMAIN info.decorator_list :
           /\ info.decorator_list[k] \in
                  DecoratorIds(before, ds[k].name,
                               try_get_import_spec(before,
                                   get_matching_imports(before, ds[k].name)))
           /\ InSeq(info.decorator_list[k], info.called_by)

\* C9: after parse_file, the record of every function or method definition that
\* carries decorators has a decorator_list of one identifier per decorator in
\* source order, each also in called_by: the pending-import identifier when the
\* name resolves through an import, else the same-file identifier when the name
\* is defined earlier in the file, else the bare name.
C9_DecoratorsRecorded ==
    (phase = "parsed" /\ visitor.explore_imports) =>
        \A i \in DecoratedDefs : \A info \in RecordsOf(visitor, source[i].lineno) :
            DecoratorsListed(info, source[i].decorator_list, Reaching(i))

\* The source ends with a call expression whose callee is a name or an attribute.
EndsWithCall == source # <<>> /\ Last(source).kind = "Call" /\ Last(source).func.name # None

\* name is the lookup key of a function or method symbol of the file.
SameFileCallable(v, name) ==
    /\ DictHas(v.symbol_lookup, name)
    /\ IsCallable(v.heap[DictGet(v.symbols, DictGet(v.symbol_lookup, name))])

\* Between before and after nothing changed but the record of the symbol name
\* stands for: no placeholder and no pending import call was created or
\* updated, and no other symbol was touched.
StoppedAtHit(before, after, name) ==
    /\ after.import_calls = before.import_calls
    /\ after.import_symbols = before.import_symbols
    /\ after.import_call_info_lookup = before.import_call_info_lookup
    /\ Len(after.heap) = Len(before.heap)
    /\ \A addr \in DOMAIN before.heap :
           addr # DictGet(before.symbols, DictGet(before.symbol_lookup, name)) =>
               after.heap[addr] = before.heap[addr]

\* C17: a call expression inside a function whose called name is the key of a
\* function or method symbol of the same file is resolved there and nowhere
\* else, a repeated call from the same caller included: it creates or updates
\* no placeholder and no pending import call and adds the caller to no other
\* symbol.
C17_SameFileHitStopsResolution ==
    EndsWithCall =>
        \A before \in {Reaching(Len(source))} :
            (/\ before.current_function_stack # <<>>
             /\ SameFileCallable(before, Last(source).func.name)) =>
                StoppedAtHit(before, visitor, Last(source).func.name)

\* The recorded imports that are name or end with "." and name, in
\* declaration order.
PlausibleImports(imports, name) ==
    SelectSeq(imports, LAMBDA i : i = name \/ EndsWith(i, <<".">> \o name))

\* C18: for a call of name, the plausible imports of import-call resolution
\* are exactly the recorded imports equal to name or ending with "." and
\* name, in declaration order; an import whose last component only has name
\* as a suffix is none of them.
C18_MatchingImportsEndWithComponent ==
    EndsWithCall =>
        get_matching_imports(visitor, Last(source).func.name)
            = PlausibleImports(visitor.imports, Last(source).func.name)

\* C19: an exception raised while one call site is resolved, a call expression
\* or a decorator application, stays with that site: the traversal of the file
\* goes on, so that every later definition and call is extracted.
C19_SiteFailureStaysLocal == ~visitor.raised

\* The class, function and method definitions of the source.
Definitions == {i \in DOMAIN source : source[i].kind \in {"ClassDef", "FunctionDef"}}

\* The symbol table of v has an entry for a definition of name: a key that
\* ends with the name, with a record of a class for a ClassDef and of a
\* function or method for a FunctionDef.
HasEntryFor(v, node) ==
    \E i \in DOMAIN v.symbols :
        /\ Last(v.symbols[i][1]) = Last(node.name)
        /\ (v.heap[v.symbols[i][2]].type = "class") = (node.kind = "ClassDef")

\* C21: after parse_file of a file that parses, the symbol table has an entry
\* for every class, function and method definition of the file at any nesting
\* level, a function defined in a method body or in a compound statement of a
\* class body included.
C21_EveryDefinitionHasAnEntry ==
    (phase = "parsed" /\ ~visitor.raised) =>
        \A i \in Definitions : HasEntryFor(visitor, source[i])

\* Every caller the record under each identifier of before has accumulated is
\* a caller of the record under that identifier in after.
CallersKept(before, after) ==
    \A i \in DOMAIN before.symbols :
        /\ DictHas(after.symbols, before.symbols[i][1])
        /\ \A k \in DOMAIN before.heap[before.symbols[i][2]].called_by :
               InSeq(before.heap[before.symbols[i][2]].called_by[k],
                     after.heap[DictGet(after.symbols, before.symbols[i][1])].called_by)

\* C22: when a file defines an identifier more than once, the record that
\* exists for it is updated: at every step of the traversal, every caller
\* accumulated in the called_by of a symbol is still there after the step, so
\* that it is present after parse_file.
C22_RedefinitionKeepsCallers == [][CallersKept(visitor, visitor')]_vars

\* A class is among the open nodes.
BelowClass(open) == \E k \in DOMAIN open : open[k].kind = "ClassDef"

\* The nodes of src whose bodies are open at its end, outermost first, each
\* with the name its definition goes by: a FunctionDef that is a statement of
\* a class body is the method Class.name; a FunctionDef elsewhere below a
\* class is not traversed and opens nothing.
RECURSIVE OpenNodes(_, _)
OpenNodes(open, src) ==
    IF src = <<>> THEN open
    ELSE IF Head(src).kind = "End" THEN OpenNodes(Pop(open), Tail(src))
    ELSE IF Head(src).kind = "ClassDef"
    THEN OpenNodes(Append(open, [kind |-> "ClassDef", name |-> Head(src).name]), Tail(src))
    ELSE IF Head(src).kind = "Block"
    THEN OpenNodes(Append(open, [kind |-> "Block", name |-> None]), Tail(src))
    ELSE IF Head(src).kind = "FunctionDef"
    THEN IF open # <<>> /\ Last(open).kind = "ClassDef"
         THEN OpenNodes(Append(open, [kind |-> "FunctionDef",
                                      name |-> Last(open).name \o <<".">> \o Head(src).name]),
                        Tail(src))
         ELSE IF BelowClass(open) THEN OpenNodes(open, Tail(src))
         ELSE OpenNodes(Append(open, [kind |-> "FunctionDef", name |-> Head(src).name]),
                        Tail(src))
    ELSE OpenNodes(open, Tail(src))

\* The identifiers of the function and method definitions among the open
\* nodes of a file, outermost first.
RECURSIVE EnclosingIds(_, _)
EnclosingIds(file_path, open) ==
    IF open = <<>> THEN <<>>
    ELSE IF Head(open).kind = "FunctionDef"
    THEN <<file_path \o <<"::">> \o Head(open).name>> \o EnclosingIds(file_path, Tail(open))
    ELSE EnclosingIds(file_path, Tail(open))

\* The name of the innermost open class, None outside every class.
RECURSIVE EnclosingClass(_)
EnclosingClass(open) ==
    IF open = <<>> THEN None
    ELSE IF Last(open).kind = "ClassDef" THEN Last(open).name
    ELSE EnclosingClass(Pop(open))

\* The stack and the current-class slot of v are those of the open nodes.
TracksNesting(v, open) ==
    /\ v.current_function_stack = EnclosingIds(v.file_path, open)
    /\ v.current_class = EnclosingClass(open)

\* C23: at every point of a traversal that no exception ended, a visited call
\* expression included, the call stack holds exactly the identifiers of the
\* function and method definitions that enclose that point, outermost first,
\* and the current-class slot names the innermost enclosing class; a class
\* body adds nothing to the stack; once a function, method or class is left
\* both are what they were on entry, and when the traversal completes the
\* stack is empty and the slot is unset.
C23_StackTracksEnclosingDefinitions ==
    ~visitor.raised =>
        /\ TracksNesting(visitor, OpenNodes(<<>>, source))
        /\ phase = "parsed" =>
               visitor.current_function_stack = <<>> /\ visitor.current_class = None

\* A call is visited in a function nested in a function, and one in a method.
C23_CallInNestedFunction ==
    /\ ~visitor.raised
    /\ source # <<>>
    /\ Last(source).kind = "Call"
    /\ Len(visitor.current_function_stack) = 2

\* The source holds no call site: no call expression and no decorator.
NoCallSite ==
    \A i \in DOMAIN source :
        /\ source[i].kind # "Call"
        /\ source[i].kind = "FunctionDef" => source[i].decorator_list = <<>>

\* C25: after parse_file, each element of the stack_levels of a symbol or
\* placeholder is the call-stack depth of a call site resolved to it; a symbol
\* that is never called, as every symbol of a file without call sites is, has
\* an empty set.
C25_DepthsComeFromCallSites ==
    (phase = "parsed" /\ ~visitor.raised /\ NoCallSite) =>
        \A info \in Returned(visitor) : info.stack_levels = {}

\* The keys of a dict.
KeySet(d) == {d[i][1] : i \in DOMAIN d}

\* C27: at every point of the extraction of a file, the pending import calls
\* and the placeholders have the same keys; the callee identifier of the
\* pending call under a key is that key and its placeholder is the very record
\* the placeholder map holds under the key; every entry of
\* import_call_info_lookup is a pending call of the map.
C27_PendingCallsMatchPlaceholders ==
    /\ KeySet(visitor.import_calls) = KeySet(visitor.import_symbols)
    /\ \A i \in DOMAIN visitor.import_calls :
           /\ visitor.import_calls[i][2].called_symbol_id = visitor.import_calls[i][1]
           /\ DictHas(visitor.import_symbols, visitor.import_calls[i][1])
           /\ visitor.import_calls[i][2].called_symbol_info
                  = DictGet(visitor.import_symbols, visitor.import_calls[i][1])
    /\ \A i \in DOMAIN visitor.import_call_info_lookup :
           DictHas(visitor.import_calls, visitor.import_call_info_lookup[i][2])

\* A name of the file stands for a pending call and was called from a
\* function.
C27_PendingCallWithCaller ==
    /\ visitor.import_calls # <<>>
    /\ visitor.import_call_info_lookup # <<>>
    /\ \E i \in DOMAIN visitor.import_symbols :
           visitor.heap[visitor.import_symbols[i][2]].called_by # <<>>

\* C28: with or without a normalizer, the identifier pushed on the call stack
\* for a function or method is the identifier its definition is stored under,
\* so that the identifiers on the stack, which are the same-file callers that
\* go into called_by, are keys of the symbol table of the file.
C28_StackIdsAreSymbolKeys ==
    ~visitor.raised =>
        \A k \in DOMAIN visitor.current_function_stack :
            DictHas(visitor.symbols, visitor.current_function_stack[k])

\* The visitor called no locator and holds no pending import call and no
\* placeholder.
ExploredNothing(v) ==
    /\ ~v.located
    /\ v.import_calls = <<>>
    /\ v.import_symbols = <<>>
    /\ v.import_call_info_lookup = <<>>

\* The descriptor of a module whose text the introspector reads.
ReparsedModule == [origin |-> ProjectRoot \o <<Sep, "b.py">>, venv_pkgs |-> VenvOutside]

\* The source binds a name by an import and has a call site of that name.
CallsAnImport ==
    \E i, j \in DOMAIN source :
        /\ i < j
        /\ source[i].kind \in {"Import", "ImportFrom"}
        /\ \/ source[j].kind = "Call" /\ source[j].func.name # None
                /\ Last(source[i].name) = Last(source[j].func.name)
           \/ source[j].kind = "FunctionDef"
                /\ \E k \in DOMAIN source[j].decorator_list :
                       Last(source[j].decorator_list[k].name) = Last(source[i].name)

\* C24: parse_file with explore_imports = false never calls the Module Locator
\* and returns no pending import call and no placeholder; so the re-parse of
\* a module by the Member Introspector, whatever the module imports and
\* calls, locates and introspects nothing and ends with that one file.
C24_NoExplorationWithoutFlag ==
    /\ ~visitor.explore_imports => ExploredNothing(visitor)
    /\ (phase = "parsed" /\ ~visitor.raised) =>
           \A v \in {Reparse(ReparsedModule, source)} : ExploredNothing(v)

\* parse_file without exploration returned for a file that calls a name it
\* imports.
C24_ImportCalledWithoutExploring ==
    /\ phase = "parsed"
    /\ ~visitor.raised
    /\ ~visitor.explore_imports
    /\ CallsAnImport

-----------------------------------------------------------------------------
(* build_index driven over the projects of a.py, b.py and c.py *)

\* a.py: import b; def foo(): b.bar()
SrcCallsModuleAttr ==
    <<Import(<<"b">>), FunctionDef(<<"foo">>, <<>>, 2), CallAttribute(<<"bar">>), End>>

\* from module import name; def caller(): name()
SrcCallsImported(module, name, caller) ==
    <<ImportFrom(module, name), FunctionDef(caller, <<>>, 2), CallName(name), End>>

\* from module import name; @name def foo(): pass
SrcDecoratedBy(module, name) ==
    <<ImportFrom(module, name), FunctionDef(<<"foo">>, <<Decorator(name, FALSE)>>, 2), End>>

\* a.py: from req import get; from req import post; def foo(): get(); post()
SrcCallsTwoImported ==
    <<ImportFrom(<<"req">>, <<"get">>), ImportFrom(<<"req">>, <<"post">>),
      FunctionDef(<<"foo">>, <<>>, 3), CallName(<<"get">>), CallName(<<"post">>), End>>

\* b.py: def bar(): pass
SrcDefinesBar == <<FunctionDef(<<"bar">>, <<>>, 1), End>>

\* b.py: class bar: pass
SrcDefinesClassBar == <<ClassDef(<<"bar">>, 1), End>>

\* b.py: def bar(): pass, followed by text that does not parse
SrcSyntaxError == <<FunctionDef(<<"bar">>, <<>>, 1), End, [kind |-> "SyntaxError"]>>

\* c.py: def baz(): pass
SrcDefinesBaz == <<FunctionDef(<<"baz">>, <<>>, 1), End>>

SourcesA ==
    {SrcCallsModuleAttr, SrcCallsTwoImported,
     SrcDecoratedBy(<<"b">>, <<"bar">>), SrcDecoratedBy(<<"req">>, <<"get">>),
     SrcCallsImported(<<"req">>, <<"get">>, <<"foo">>),
     SrcCallsImported(<<"req">>, <<"Session">>, <<"foo">>),
     SrcCallsImported(<<"b">>, <<"bar">>, <<"foo">>),
     SrcCallsImported(<<"tm">>, <<"now">>, <<"foo">>)}

SourcesB == {SrcDefinesBar, SrcDefinesClassBar, SrcSyntaxError}

SourcesC ==
    {SrcDefinesBaz,
     SrcCallsImported(<<"req">>, <<"get">>, <<"baz">>),
     SrcCallsImported(<<"req">>, <<"post">>, <<"baz">>)}

\* What an earlier build left in the database.
StaleGraph == MergeNode(EmptyGraph, "Symbol", <<"old.py", "::", "gone">>)

BuildInit ==
    /\ NormIdle
    /\ ManagerIdle
    /\ DescriptorIdle
    /\ LocIdle
    /\ phase = "start"
    /\ visitor = NewVisitor(None, None, None, FALSE, None)
    /\ source = <<>>
    /\ contents \in {<<a, b, c>> : a \in SourcesA, b \in SourcesB, c \in SourcesC}
    /\ file_num = 0
    /\ import_calls = <<>>
    /\ link_at = <<0, 0>>
    /\ parsed_modules = {}
    /\ members = NewMembers
    /\ graph \in {EmptyGraph, StaleGraph}
    /\ materialized = <<>>
    /\ totals = NewTotals
    /\ metadata = None
    /\ build_result = "none"
    /\ failed_writes = <<>>

\* A request to the store can fail while fewer than MaxWriteFailures did.
CanFail == Len(failed_writes) < MaxWriteFailures

\* The exception leaves build_index.
Propagated == "raised"

\* except Exception as e: logger.exception(...); return False
ReturnedFalse == "False"

\* build_index up to the per-file loop: _clear_existing_index,
\* _create_schema_constraints and the locals.  Either request can fail.
ClearIndex ==
    /\ phase = "start"
    /\ \E failure \in {"none"} \cup (IF CanFail THEN {"clear", "schema"} ELSE {}) :
           /\ phase' = IF failure = "none" THEN "files" ELSE "failed"
           /\ build_result' = IF failure = "none" THEN build_result ELSE ReturnedFalse
           /\ graph' = IF failure = "clear" THEN graph ELSE EmptyGraph
           /\ failed_writes' = IF failure = "none" THEN failed_writes
                                ELSE Append(failed_writes, failure)
    /\ file_num' = 1
    /\ import_calls' = <<>>
    /\ totals' = NewTotals
    /\ UNCHANGED <<contents, link_at, parsed_modules, members, materialized, metadata>>
    /\ UNCHANGED <<mgrVars, descVars, normVars, locVars, visitor, source>>

\* parse_file(rel_path, content, project_path, venv_path) for a project file.
ParseProjectFile(i) ==
    parse_file(NewVisitor(RelPath(ProjectFile(i), ProjectRoot), ProjectRoot, VenvOutside,
                          TRUE, None),
               contents[i])

\* The requests of one file that can fail: 1 is _add_file_to_neo4j, k + 1 is
\* _add_symbol_to_neo4j for the k-th symbol; 0 is no failure.
FileFailures(v) == {0} \cup (IF CanFail THEN 1..(Len(v.symbols) + 1) ELSE {})

\* The graph after the writes of one file, the request `failure` raising.
FileWritten(g, v, failure) ==
    IF failure = 1 THEN g
    ELSE AddSymbols(MergeFile(g, v.file_path),
                    [v EXCEPT !.symbols = SubSeq(@, 1, IF failure = 0 THEN Len(@)
                                                      ELSE failure - 2)],
                    1)

\* One turn of the per-file loop: the file is parsed, the file and its symbols
\* are written and its pending import calls are kept.  When a request raises,
\* `except Exception` logs it and the loop goes on to the next file.
ProcessFile ==
    /\ phase = "files"
    /\ file_num <= Len(ProjectFiles)
    /\ \E v \in {ParseProjectFile(file_num)} :
       \E failure \in FileFailures(v) :
           /\ graph' = FileWritten(graph, v, failure)
           /\ import_calls' = IF failure = 0 /\ v.import_calls # <<>>
                              THEN DictPut(import_calls, v.file_path, FileImportCalls(v))
                              ELSE import_calls
           /\ totals' = IF failure = 0 THEN [totals EXCEPT !.total_files = @ + 1]
                         ELSE totals
           /\ failed_writes' = IF failure = 0 THEN failed_writes
                                ELSE Append(failed_writes,
                                            IF failure = 1 THEN "file" ELSE "symbol")
    /\ file_num' = file_num + 1
    /\ UNCHANGED <<phase, contents, link_at, parsed_modules, members, materialized,
                   metadata, build_result>>
    /\ UNCHANGED <<mgrVars, descVars, normVars, locVars, visitor, source>>

\* The per-file loop is through: parsed_modules = set(); m, c, f = {}, {}, {}
StartLinking ==
    /\ phase = "files"
    /\ file_num > Len(ProjectFiles)
    /\ phase' = "link"
    /\ link_at' = <<1, 1>>
    /\ parsed_modules' = {}
    /\ members' = NewMembers
    /\ UNCHANGED <<contents, file_num, import_calls, graph, materialized, totals,
                   metadata, build_result, failed_writes>>
    /\ UNCHANGED <<mgrVars, descVars, normVars, locVars, visitor, source>>

\* The pending import calls the build holds, as <<file, call>> positions.
Pending ==
    UNION {{<<i, k>> : k \in DOMAIN import_calls[i][2]} : i \in DOMAIN import_calls}

PendingCall(p) == import_calls[p[1]][2][p[2]][2]

\* One more parse of the module of spec is counted when _getmembers was called
\* and did not return early.
Counted(counts, spec, called) ==
    IF called /\ ~ReturnsEarly(spec)
    THEN DictPut(counts, spec.origin,
                 1 + (IF DictHas(counts, spec.origin) THEN DictGet(counts, spec.origin)
                      ELSE 0))
    ELSE counts

\* The position after p in the two loops of the linker.
NextPending(p) ==
    IF p[2] < Len(import_calls[p[1]][2]) THEN <<p[1], p[2] + 1>> ELSE <<p[1] + 1, 1>>

\* One turn of the inner loop of the linker, lines 252 to 264.  When
\* _add_import_call_to_neo4j raises, the exception leaves both loops for the
\* handler of build_index.
LinkStep ==
    /\ phase = "link"
    /\ link_at[1] <= Len(import_calls)
    /\ \E import_call \in {PendingCall(link_at)} :
       \E fresh \in {import_call.import_spec.origin \notin parsed_modules} :
       \E spec1 \in {IF fresh THEN _getmembers(contents, import_call.import_spec)
                     ELSE ShareMembers(import_call.import_spec, members)} :
       \E found \in {try_get_symbol_type(contents, spec1, import_call.called_symbol_id)} :
           /\ import_calls' = [import_calls EXCEPT ![link_at[1]][2][link_at[2]][2] =
                                   Linked(import_call, found)]
           /\ \E failure \in {FALSE} \cup (IF CanFail THEN {TRUE} ELSE {}) :
                  /\ graph' = IF failure THEN graph
                               ELSE _add_import_call_to_neo4j(graph,
                                        import_calls[link_at[1]][1],
                                        Linked(import_call, found))
                  /\ phase' = IF failure THEN "failed" ELSE phase
                  /\ build_result' = IF failure THEN ReturnedFalse ELSE build_result
                  /\ failed_writes' = IF failure THEN Append(failed_writes, "import_call")
                                       ELSE failed_writes
                  /\ link_at' = IF failure THEN link_at ELSE NextPending(link_at)
           /\ members' = IF fresh THEN UpdateMembers(members, spec1) ELSE members
           /\ parsed_modules' = parsed_modules \cup {import_call.import_spec.origin}
           /\ totals' = IF fresh THEN [totals EXCEPT !.total_files = @ + 1] ELSE totals
           /\ materialized' = Counted(Counted(materialized, import_call.import_spec, fresh),
                                      spec1, found.ran)
    /\ UNCHANGED <<contents, file_num, metadata>>
    /\ UNCHANGED <<mgrVars, descVars, normVars, locVars, visitor, source>>

\* The linker is through: the clusters are computed, the metadata is stored
\* and build_index returns True; when either raises it returns False.
FinishBuild ==
    /\ phase = "link"
    /\ link_at[1] > Len(import_calls)
    /\ \E failure \in {"none"} \cup (IF CanFail THEN {"clustering", "metadata"} ELSE {}) :
           /\ phase' = IF failure = "none" THEN "done" ELSE "failed"
           /\ build_result' = IF failure = "none" THEN "True" ELSE ReturnedFalse
           /\ metadata' = IF failure = "none"
                           THEN <<[indexed_files |-> totals.total_files,
                                   total_symbols |-> totals.total_symbols]>>
                           ELSE metadata
           /\ failed_writes' = IF failure = "none" THEN failed_writes
                                ELSE Append(failed_writes, failure)
    /\ UNCHANGED <<contents, file_num, import_calls, link_at, parsed_modules, members,
                   graph, materialized, totals>>
    /\ UNCHANGED <<mgrVars, descVars, normVars, locVars, visitor, source>>

Next ==
    \/ ClearIndex
    \/ ProcessFile
    \/ StartLinking
    \/ LinkStep
    \/ FinishBuild

Spec == BuildInit /\ [][Next]_vars

\* C1: in one build, _getmembers parses the module of an origin at most once,
\* counting the linker's own call and the calls made by try_get_symbol_type.
C1_MembersMaterializedOnce ==
    \A i \in DOMAIN materialized : materialized[i][2] <= 1

\* The identifiers that are pending in two different files.
SharedTargets ==
    {PendingCall(p).called_symbol_id : p \in {q \in Pending :
        \E r \in Pending : /\ r[1] # q[1]
                           /\ PendingCall(r).called_symbol_id = PendingCall(q).called_symbol_id}}

\* The graph holds a CALLS relationship from caller_id to called_id.
Calls(g, caller_id, called_id) ==
    \E i \in Match(g, "Symbol", caller_id), j \in Match(g, "Symbol", called_id) :
        <<"CALLS", i, j>> \in g.rels

\* C2: when call sites in two files reference the same unresolved import
\* target, the finished index holds exactly one symbol node for the target's
\* identifier, with a CALLS relationship from every one of the callers.
C2_OneRecordForSharedTarget ==
    phase = "done" =>
        \A id \in SharedTargets :
            /\ Cardinality(Match(graph, "Symbol", id)) = 1
            /\ \A p \in Pending :
                   PendingCall(p).called_symbol_id = id =>
                       \A k \in DOMAIN PendingCall(p).called_symbol_info.called_by :
                           Calls(graph, PendingCall(p).called_symbol_info.called_by[k], id)

C2_TwoFilesCallOneTarget ==
    /\ phase = "done"
    /\ \E p, q \in Pending :
           /\ p[1] # q[1]
           /\ PendingCall(p).called_symbol_id = PendingCall(q).called_symbol_id
           /\ PendingCall(p).called_symbol_info.called_by # <<>>
           /\ PendingCall(q).called_symbol_info.called_by # <<>>
           /\ PendingCall(p).called_symbol_info.called_by
                  # PendingCall(q).called_symbol_info.called_by

\* C3: a step of the linker changes nothing of a placeholder but its type: the
\* identifier, file, line (-1), called_by and depths are what extraction left.
C3_LinkChangesOnlyType ==
    [][phase = "link" =>
          \A p \in Pending :
              /\ import_calls'[p[1]][2][p[2]][1] = import_calls[p[1]][2][p[2]][1]
              /\ import_calls'[p[1]][2][p[2]][2].called_symbol_id
                     = PendingCall(p).called_symbol_id
              /\ import_calls'[p[1]][2][p[2]][2].called_symbol_info
                     = [PendingCall(p).called_symbol_info EXCEPT
                            !.type = import_calls'[p[1]][2][p[2]][2].called_symbol_info.type]
              /\ import_calls'[p[1]][2][p[2]][2].called_symbol_info.line = -1]_vars

C3_LinkedPlaceholderWithCaller ==
    \E p \in Pending :
        /\ PendingCall(p).called_symbol_info.type # "None"
        /\ PendingCall(p).called_symbol_info.called_by # <<>>
        /\ PendingCall(p).called_symbol_info.stack_levels # {}

\* The introspector has no kind for the target of a pending import call.
Undetermined(import_call) ==
    \/ ~import_call.import_spec.initialised
    \/ KindIn(import_call.import_spec,
              SymbolKeys(import_call.import_spec, import_call.called_symbol_id)) = "None"

\* C4: when the linker is through, every placeholder has a kind among class,
\* function and method, it is function when the introspector has none, and
\* the node written for it is labelled as a class or a function.
C4_PlaceholdersHaveKind ==
    phase = "done" =>
        \A p \in Pending :
            /\ PendingCall(p).called_symbol_info.type \in {"class", "function", "method"}
            /\ Undetermined(PendingCall(p)) =>
                   PendingCall(p).called_symbol_info.type = "function"
            /\ \E j \in Match(graph, "Symbol", PendingCall(p).called_symbol_id) :
                   graph.nodes[j].labels \cap {"Class", "Function"} # {}

C4_DefaultedToFunction ==
    /\ phase = "done"
    /\ \E p \in Pending :
           /\ Undetermined(PendingCall(p))
           /\ PendingCall(p).called_symbol_info.type = "function"

\* C6: with a.py `import b; def foo(): b.bar()` and b.py `def bar(): pass`, the
\* finished build holds a CALLS relationship from a.py::foo to b.py::bar, and
\* b.py::bar is a function.
C6_ModuleAttributeCallLinked ==
    (phase = "done" /\ contents[1] = SrcCallsModuleAttr /\ contents[2] = SrcDefinesBar) =>
        /\ Calls(graph, <<"a.py", "::", "foo">>, <<"b.py", "::", "bar">>)
        /\ \E j \in Match(graph, "Symbol", <<"b.py", "::", "bar">>) :
               graph.nodes[j].type = "function"

\* The path part of an identifier is in a prefixed namespace.
Prefixed(id) ==
    \/ StartsWith(id, <<"venv://">>)
    \/ StartsWith(id, <<"stdlib://">>)
    \/ StartsWith(id, <<"external://">>)

\* The path part of an identifier is in one of the four namespaces: prefixed,
\* or a path below the project root.
Canonical(id) ==
    /\ Contains(id, <<"::">>)
    /\ \/ Prefixed(id)
       \/ ~IsAbs(id) /\ Head(id) # ".."

\* C8: a placeholder whose module lies outside the project root has an
\* identifier under venv://, stdlib:// or external://, and every identifier
\* the build writes has its path part in one of the four namespaces.
C8_IdentifiersAreCanonical ==
    /\ \A p \in Pending :
           ~StartsWith(PendingCall(p).import_spec.origin, ProjectRoot \o <<Sep>>) =>
               Prefixed(PendingCall(p).called_symbol_id)
    /\ \A i \in DOMAIN graph.nodes :
           "Symbol" \in graph.nodes[i].labels => Canonical(graph.nodes[i].qualified_name)

\* C12: build_index lets no exception escape: whatever fails on the way, it
\* returns True when the build went through and False when it was abandoned.
C12_BuildReturnsBoolean ==
    /\ build_result # "raised"
    /\ phase = "done" => build_result = "True"
    /\ phase = "failed" => build_result = "False"

C12_AbandonedBuildReturnsFalse ==
    /\ phase = "failed"
    /\ build_result = "False"
    /\ failed_writes # <<>>

\* C13: when one upsert of a file, of a symbol or of a pending import call
\* fails, the build goes through the remaining files and pending import calls
\* and returns True.
C13_BuildSurvivesFailedUpsert ==
    (/\ phase \in {"done", "failed"}
     /\ Len(failed_writes) = 1
     /\ failed_writes[1] \in {"file", "symbol", "import_call"})
        => /\ build_result = "True"
           /\ link_at[1] > Len(import_calls)

\* parse_file returned an empty symbol table and an empty file record.
NothingExtracted(v) ==
    /\ v.symbols = <<>>
    /\ v.functions = <<>>
    /\ v.classes = <<>>
    /\ v.imports = <<>>
    /\ v.import_calls = <<>>
    /\ v.import_symbols = <<>>

\* C14: for a file whose text has a syntax error, parse_file raises nothing and
\* returns an empty symbol table and a file record without functions, classes,
\* imports and pending import calls; the build writes no symbol for it, keeps
\* no pending import call of it and goes on to the next file.
C14_SyntaxErrorYieldsEmptyRecord ==
    [][(/\ phase = "files"
        /\ file_num \in DOMAIN contents
        /\ Unparseable(contents[file_num]))
          => /\ NothingExtracted(ParseProjectFile(file_num))
             /\ ~ParseProjectFile(file_num).raised
             /\ phase' = "files"
             /\ file_num' = file_num + 1
             /\ graph'.nodes = graph.nodes
             /\ import_calls' = import_calls]_vars

C14_BuiltPastSyntaxError ==
    /\ phase = "done"
    /\ build_result = "True"
    /\ failed_writes = <<>>
    /\ Unparseable(contents[2])
    /\ totals.total_files >= 3
    /\ \E j \in Match(graph, "Symbol", <<"c.py", "::", "baz">>) :
           graph.nodes[j].type = "function"

\* The number of symbols parse_file returned for the files of the project.
RECURSIVE SymbolsExtracted(_)
SymbolsExtracted(i) ==
    IF i = 0 THEN 0
    ELSE Len(ParseProjectFile(i).symbols) + SymbolsExtracted(i - 1)

\* C26: the symbols-found count a successful build stores in the metadata
\* (total_symbols) is the number of symbols extracted from the files the build
\* processed.
C26_TotalSymbolsCountsSymbols ==
    (build_result = "True" /\ failed_writes = <<>>) =>
        metadata[1].total_symbols = SymbolsExtracted(Len(ProjectFiles))

-----------------------------------------------------------------------------
(* The manager driven on bounded inputs *)

\* The paths handed to set_project_path: none, blank, directories with and
\* without surrounding blanks, a path that is no directory, and a number.
PathArgs ==
    {None, <<" ">>, <<"/proj">>, <<" ", "/other", " ">>, <<"/missing">>, NotAString}

\* The paths handed to set_venv_path.
VenvArgs == {None, <<"/venv">>, <<"/missing">>}

ClusteringArgs == {DefaultClustering, <<FALSE, 3, 50>>}

\* What a call record keeps of the manager the call was made on.
Before(m) ==
    [project_path |-> m.project_path, index_builder |-> m.index_builder,
     clustering |-> m.clustering]

ConfigFiles == {None, <<"config">>, <<"config", <<FALSE, 3, 50>>>>}

ManagerInit ==
    /\ NormIdle
    /\ DescriptorIdle
    /\ LocIdle
    /\ ParseIdle
    /\ BuildIdle
    /\ manager = NewManager
    /\ environ \in {None, <<"cfg.json">>}
    /\ config_file \in ConfigFiles
    /\ mgr_call = [op |-> "none"]

SetProjectPath ==
    /\ \E project_path \in PathArgs, init \in BOOLEAN, raises \in BOOLEAN,
          outcome \in InitOutcomes :
         \E r \in {set_project_path(manager, environ, config_file, project_path, init,
                                    raises, outcome)} :
            /\ manager' = r.manager
            /\ config_file' = r.config_file
            /\ mgr_call' = [op |-> "set_project_path", path |-> project_path,
                            init |-> init, raises |-> raises, before |-> Before(manager),
                            result |-> r.result, initialized |-> r.initialized,
                            outcome |-> IF r.initialized = 1 THEN outcome ELSE "none"]
    /\ UNCHANGED environ
    /\ UNCHANGED <<descVars, normVars, locVars, parseVars, buildVars>>

SetVenvPath ==
    /\ \E venv_path \in VenvArgs, init \in BOOLEAN, raises \in BOOLEAN,
          outcome \in InitOutcomes :
         \E r \in {set_venv_path(manager, environ, config_file, venv_path, init,
                                 raises, outcome)} :
            /\ manager' = r.manager
            /\ config_file' = r.config_file
            /\ mgr_call' = [op |-> "set_venv_path", path |-> venv_path,
                            init |-> init, raises |-> raises, before |-> Before(manager),
                            result |-> r.result, initialized |-> r.initialized,
                            outcome |-> IF r.initialized = 1 THEN outcome ELSE "none"]
    /\ UNCHANGED environ
    /\ UNCHANGED <<descVars, normVars, locVars, parseVars, buildVars>>

Initialize ==
    /\ \E outcome \in InitOutcomes :
         \E r \in {initialize(manager, environ, config_file, outcome)} :
            /\ manager' = r.manager
            /\ config_file' = r.config_file
            /\ mgr_call' = [op |-> "initialize", before |-> Before(manager),
                            result |-> r.result]
    /\ UNCHANGED environ
    /\ UNCHANGED <<descVars, normVars, locVars, parseVars, buildVars>>

SetClusteringConfig ==
    /\ \E config \in ClusteringArgs :
         \E r \in {set_clustering_config(manager, config_file, config)} :
            /\ manager' = r.manager
            /\ config_file' = r.config_file
            /\ mgr_call' = [op |-> "set_clustering_config", config |-> config,
                            before |-> Before(manager), result |-> r.result]
    /\ UNCHANGED environ
    /\ UNCHANGED <<descVars, normVars, locVars, parseVars, buildVars>>

RefreshIndex ==
    /\ \E outcome \in BuilderOutcomes :
         \E r \in {refresh_index(manager, config_file, outcome)} :
            /\ config_file' = r.config_file
            /\ mgr_call' = [op |-> "refresh_index", before |-> Before(manager),
                            result |-> r.result, built |-> r.built]
    /\ UNCHANGED <<manager, environ>>
    /\ UNCHANGED <<descVars, normVars, locVars, parseVars, buildVars>>

NextManager ==
    \/ SetProjectPath
    \/ SetVenvPath
    \/ Initialize
    \/ SetClusteringConfig
    \/ RefreshIndex

SpecManager == ManagerInit /\ [][NextManager]_vars

\* The call handed set_project_path an existing directory and the check of it
\* did not raise.
ValidDirectory(call) ==
    /\ call.path # None
    /\ call.path # NotAString
    /\ ~call.raises
    /\ strip(call.path) \in ManagerDirs

C30_BuilderIsOfCurrentProject ==
    /\ manager.index_builder # None =>
           /\ manager.index_builder[1].project_path = manager.project_path
           /\ manager.index_builder[1].venv_path = manager.venv_path
    /\ manager.index_provider # None =>
           manager.index_provider[1] = manager.project_path

-----------------------------------------------------------------------------
(* The member introspector driven by lookups on one descriptor *)

\* try_get_symbol_type calls per descriptor.
MaxLookups == 3

\* Where the module of the descriptor comes from: req.py of the venv, which
\* can be read and parsed; a module of the project's package pkg that cannot
\* be read; a built-in and a frozen module; a namespace package without origin.
DescriptorOrigins ==
    {SitePackagesOutside \o <<Sep, "req.py">>,
     ProjectRoot \o <<Sep, "pkg", Sep, "foobar.py">>,
     <<"built-in">>, <<"frozen">>, None}

\* The identifiers looked up, with and without a path.
LookupIds ==
    {<<"get">>, <<"Session">>, <<"nothing">>,
     <<"..", Sep, "venv", Sep, "req.py", "::", "post">>}

MembersInit ==
    /\ NormIdle
    /\ ManagerIdle
    /\ LocIdle
    /\ ParseIdle
    /\ BuildIdle
    /\ \E origin \in DescriptorOrigins :
           descriptor = <<NewModuleSpec(origin, SitePackagesOutside, ProjectRoot)>>
    /\ extractions = 0
    /\ lookups = <<>>

\* One call descriptor.try_get_symbol_type(symbol_id); no project file is the
\* module's.
TryGetSymbolType ==
    /\ Len(lookups) < MaxLookups
    /\ \E symbol_id \in LookupIds :
         \E r \in {try_get_symbol_type(<<>>, descriptor[1], symbol_id)} :
            /\ descriptor' = <<r.spec>>
            /\ extractions' = IF r.ran /\ ~ReturnsEarly(descriptor[1])
                               THEN extractions + 1
                               ELSE extractions
            /\ lookups' = Append(lookups,
                                 [symbol_id |-> symbol_id, type |-> r.type,
                                  extracted |-> r.ran /\ ~ReturnsEarly(descriptor[1]),
                                  initialised |-> r.spec.initialised])
    /\ UNCHANGED <<mgrVars, normVars, locVars, parseVars, buildVars>>

NextMembers == TryGetSymbolType

SpecMembers == MembersInit /\ [][NextMembers]_vars

\* C20: over the try_get_symbol_type calls made on one descriptor the
\* extraction of its members runs at most once, whether it succeeded or
\* failed: after a first attempt that failed, every later lookup returns no
\* kind and attempts no extraction.
C20_ExtractionAttemptedOnce ==
    /\ extractions <= 1
    /\ \A i \in DOMAIN lookups :
           (i > 1 /\ lookups[1].extracted /\ ~lookups[1].initialised) =>
               (lookups[i].type = "None" /\ ~lookups[i].extracted)

=============================================================================
